---- MODULE Spec2Model ----
(***************************************************************************)
(* Flappy-bird game: the single-player simulation engine (FlappyBirdGame), *)
(* the seeded random generator (SeededRandom) and the collision test.      *)
(*                                                                         *)
(* Lengths are kept in HALF-PIXELS so that GRAVITY = 0.5 px/frame is an    *)
(* integer: a source length of n px is HP(n) here.  Math.random() is a     *)
(* nondeterministic draw from RandomSamples (in percent of the unit        *)
(* interval).                                                              *)
(***************************************************************************)
EXTENDS Integers, Sequences, FiniteSets, TLC

VARIABLES
    screenWidth,      \* Dimensions.get('window').width  (px)
    screenHeight,     \* Dimensions.get('window').height (px)
    gameState,        \* 'start' | 'playing' | 'hit' | 'gameOver'
    birdPosition,     \* [x, y] in half-pixels
    birdVelocity,     \* half-pixels per frame
    pipes,            \* sequence of [id, x, topHeight, passed]
    score,
    nextPipeId,
    hasHitGroundRef,  \* hasHitGroundRef.current
    gameOverTimers,   \* pending setTimeout(() => setGameState('gameOver'), 500)
    tickCount,        \* frames run in 'playing' since the run began
    settleCount,      \* frames run in 'hit' after the bird reached the ground
    credits,          \* history: obstacle id -> times the score was credited for it
    last,             \* history: the last operation and the state it ran in
    twin,             \* a second FlappyBirdGame instance (another client of the room)
    rngA, rngB,       \* two SeededRandom instances: [seed, current]
    rngOut,           \* what the last next() of rngA and of rngB returned
    rngCalls,         \* next() calls made on each generator since new or reset()
    rngLog,           \* history: what rngA's next() returned before and after reset()
    probe,            \* the arguments and the result of a checkCollision call
    directCalls,      \* direct calls of startGame / handleRestart made so far
    rooms,            \* table rooms: sequence of [code, state, host, verified, random_seed], id = index
    roomPlayers,      \* table room_players: set of [room, user, ready, alive, score, birdY]
    clients,          \* per user: the lobby / service call in progress and its locals
    countdowns,       \* pending countdown timers of MultiplayerService.startGame
    roomLast,         \* history: the last room operation step and the state it ran in
    sync,             \* the state, refs and timers of one MultiplayerFlappyBirdGame
    syncLog,          \* history: what that component was asked to send and what it sent
    lookup,           \* a room code being generated, typed in and looked up
    scores,           \* the calls of save_score_and_update_stats, and whether each saved a row
    raf               \* the frame callbacks requested and not yet run, and gameLoopRef

engineVars == <<gameState, birdPosition, birdVelocity, pipes, score, nextPipeId,
                hasHitGroundRef, gameOverTimers>>
simVars == <<gameState, birdPosition, birdVelocity, pipes, score>>
histVars == <<tickCount, settleCount, credits, last>>
rngVars == <<rngA, rngB, rngOut, rngCalls, rngLog>>
roomVars == <<rooms, roomPlayers, clients, countdowns, roomLast>>
syncVars == <<sync, syncLog, lookup, scores>>
vars == <<screenWidth, screenHeight, gameState, birdPosition, birdVelocity, pipes,
          score, nextPipeId, hasHitGroundRef, gameOverTimers, tickCount,
          settleCount, credits, last, twin, rngA, rngB, rngOut, rngCalls, rngLog, probe,
          directCalls, rooms, roomPlayers, clients, countdowns, roomLast, sync, syncLog,
          lookup, scores,
          raf>>

----------------------------------------------------------------------------
(* Bounds of the model *)

\* frames of one run
MaxTicks == 180
\* a tap reaches a running game every FlapPeriod frames
FlapPeriod == 4
\* frames run in 'hit' after the bird reached the ground
MaxSettleTicks == 2
\* settle timers pending at once
MaxPendingTimers == 2
\* direct calls of startGame / handleRestart, and of syncDeath
MaxDirectCalls == 1
\* frames of one run when the handlers are called directly
DirectMaxTicks == 45
\* a tap reaches such a run every DirectFlapPeriod frames
DirectFlapPeriod == 12
\* frames given to the two instances of a room
PairMaxTicks == 50
\* next() calls on one generator
MaxCalls == 24

\* window sizes the component is mounted in (px); widths are multiples of 10
\* so that 15% of the width is a whole number of half-pixels
Viewports == { [w |-> 200, h |-> 300], [w |-> 1200, h |-> 300] }
DirectViewports == { [w |-> 200, h |-> 300] }
PairViewports == { [w |-> 170, h |-> 320] }

\* Math.random() draws, in percent
RandomSamples == {0, 50}

\* seed arguments of new SeededRandom(seed), and draws of its fallback
\* Math.floor(Math.random() * 1000000)
Seeds == {0, 1, 12345, 999999, 2147483647, -1, -610, -1000}
FallbackSeeds == {0, 7, 999999}

----------------------------------------------------------------------------
(* Game constants *)

GRAVITY == 1
FLAP_STRENGTH == -8
PIPE_SPEED == 3
PIPE_WIDTH == 90
BIRD_COLLISION_SIZE == 40
BIRD_COLLISION_OFFSET == 30
BIRD_START_X == 100
MIN_TOP_PIPE_HEIGHT == 60
MIN_BOTTOM_PIPE_HEIGHT == 60

HP(px) == 2 * px

Max(a, b) == IF a >= b THEN a ELSE b

\* Math.ceil(a / b) for b > 0
CeilDiv(a, b) == -((-a) \div b)

PipeGap == Max(HP(180), (HP(screenHeight) * 28) \div 100)

PipeSpacing == (HP(screenWidth) * 15) \div 100

MinGapY == HP(MIN_TOP_PIPE_HEIGHT)

ValidMaxGapY == Max(MinGapY, HP(screenHeight) - PipeGap - HP(MIN_BOTTOM_PIPE_HEIGHT))

\* Math.random() * (validMaxGapY - minGapY) + minGapY, with Math.random() = r / 100
GapY(r) == (r * (ValidMaxGapY - MinGapY)) \div 100 + MinGapY

FirstPipeX == HP(BIRD_START_X) + HP(300)

PipesNeeded == CeilDiv(HP(screenWidth) - FirstPipeX, PipeSpacing) + 1 + 10

\* the draws that give different gap heights in this window
Draws == {r \in RandomSamples : \A q \in RandomSamples : GapY(q) = GapY(r) => r <= q}

\* the random draws of one startGame call
StartDraws == [1..Max(PipesNeeded, 0) -> Draws]

----------------------------------------------------------------------------
(* The engine as a record, and its handlers as operators on it *)

Engine == [gameState |-> gameState, birdPosition |-> birdPosition,
           birdVelocity |-> birdVelocity, pipes |-> pipes, score |-> score,
           nextPipeId |-> nextPipeId, hasHitGroundRef |-> hasHitGroundRef,
           gameOverTimers |-> gameOverTimers]

NewEngine == [gameState |-> "start",
              birdPosition |-> [x |-> HP(BIRD_START_X), y |-> HP(screenHeight) \div 2],
              birdVelocity |-> 0, pipes |-> <<>>, score |-> 0, nextPipeId |-> 0,
              hasHitGroundRef |-> FALSE, gameOverTimers |-> 0]

\* initGame without setScore(0)
initGame_keepsScore(e) ==
    [e EXCEPT !.birdPosition = [x |-> HP(BIRD_START_X), y |-> HP(screenHeight) \div 2],
              !.birdVelocity = 0,
              !.pipes = <<>>,
              !.nextPipeId = 0,
              !.hasHitGroundRef = FALSE,
              !.gameState = "start"]

initGame(e) ==
    [e EXCEPT !.birdPosition = [x |-> HP(BIRD_START_X), y |-> HP(screenHeight) \div 2],
              !.birdVelocity = 0,
              !.pipes = <<>>,
              !.score = 0,
              !.nextPipeId = 0,
              !.hasHitGroundRef = FALSE,
              !.gameState = "start"]

startGame(e, rnd) ==
    [e EXCEPT !.gameState = "playing",
              !.birdVelocity = HP(FLAP_STRENGTH),
              !.pipes = [i \in 1..Max(PipesNeeded, 0) |->
                            [id |-> i - 1,
                             x |-> FirstPipeX + (i - 1) * PipeSpacing,
                             topHeight |-> GapY(rnd[i]),
                             passed |-> FALSE]],
              !.nextPipeId = PipesNeeded]

\* handleRestart without its startGame() call
handleRestart_onlyInit(e, rnd) == initGame(e)

handleRestart(e, rnd) == startGame(initGame(e), rnd)

\* handleFlap adding the impulse to the velocity
handleFlap_additive(e, rnd) ==
    CASE e.gameState = "start" -> startGame(e, rnd)
      [] e.gameState = "playing" ->
            [e EXCEPT !.birdVelocity = e.birdVelocity + HP(FLAP_STRENGTH)]
      [] e.gameState = "hit" -> e
      [] e.gameState = "gameOver" -> startGame(initGame(e), rnd)

\* handleFlap without the 'hit' branch: the tap flaps
handleFlap_flapsInHit(e, rnd) ==
    CASE e.gameState = "start" -> startGame(e, rnd)
      [] e.gameState \in {"playing", "hit"} -> [e EXCEPT !.birdVelocity = HP(FLAP_STRENGTH)]
      [] e.gameState = "gameOver" -> startGame(initGame(e), rnd)

\* handleFlap resetting the game on a tap in 'hit'
handleFlap_resetsInHit(e, rnd) ==
    CASE e.gameState = "start" -> startGame(e, rnd)
      [] e.gameState = "playing" -> [e EXCEPT !.birdVelocity = HP(FLAP_STRENGTH)]
      [] e.gameState = "hit" -> initGame(e)
      [] e.gameState = "gameOver" -> startGame(initGame(e), rnd)

handleFlap(e, rnd) ==
    CASE e.gameState = "start" -> startGame(e, rnd)
      [] e.gameState = "playing" -> [e EXCEPT !.birdVelocity = HP(FLAP_STRENGTH)]
      [] e.gameState = "hit" -> e
      [] e.gameState = "gameOver" -> startGame(initGame(e), rnd)

\* pipeHit counting a box that only touches the pipe's edge
pipeHit_touching(collisionX, collisionY, pipe) ==
    /\ collisionX + HP(BIRD_COLLISION_SIZE) > pipe.x
    /\ collisionX < pipe.x + HP(PIPE_WIDTH)
    /\ \/ (collisionY + HP(BIRD_COLLISION_SIZE) > 0 /\ collisionY <= pipe.topHeight)
       \/ (collisionY < HP(screenHeight)
           /\ collisionY + HP(BIRD_COLLISION_SIZE) >= pipe.topHeight + PipeGap)

pipeHit(collisionX, collisionY, pipe) ==
    /\ collisionX + HP(BIRD_COLLISION_SIZE) > pipe.x
    /\ collisionX < pipe.x + HP(PIPE_WIDTH)
    /\ \/ (collisionY + HP(BIRD_COLLISION_SIZE) > 0 /\ collisionY < pipe.topHeight)
       \/ (collisionY < HP(screenHeight)
           /\ collisionY + HP(BIRD_COLLISION_SIZE) > pipe.topHeight + PipeGap)

\* checkCollision letting a box that only touches the top or bottom edge through
checkCollision_strictEdges(birdPos, currentPipes) ==
    LET collisionX == birdPos.x + HP(BIRD_COLLISION_OFFSET)
        collisionY == birdPos.y + HP(BIRD_COLLISION_OFFSET)
    IN  \/ collisionY < 0
        \/ collisionY + HP(BIRD_COLLISION_SIZE) > HP(screenHeight)
        \/ \E i \in 1..Len(currentPipes) : pipeHit(collisionX, collisionY, currentPipes[i])

checkCollision(birdPos, currentPipes) ==
    LET collisionX == birdPos.x + HP(BIRD_COLLISION_OFFSET)
        collisionY == birdPos.y + HP(BIRD_COLLISION_OFFSET)
    IN  \/ collisionY <= 0
        \/ collisionY + HP(BIRD_COLLISION_SIZE) >= HP(screenHeight)
        \/ \E i \in 1..Len(currentPipes) : pipeHit(collisionX, collisionY, currentPipes[i])

\* `!passed && pipe.x + PIPE_WIDTH < prevPos.x`
creditsNow(pipe, birdX) == ~pipe.passed /\ pipe.x + HP(PIPE_WIDTH) < birdX

movePipe(pipe, birdX) ==
    [pipe EXCEPT !.x = pipe.x - HP(PIPE_SPEED),
                 !.passed = pipe.passed \/ creditsNow(pipe, birdX)]

RECURSIVE keepOnScreen(_)
keepOnScreen(ps) ==
    IF ps = <<>> THEN <<>>
    ELSE IF Head(ps).x + HP(PIPE_WIDTH) > 0
         THEN <<Head(ps)>> \o keepOnScreen(Tail(ps))
         ELSE keepOnScreen(Tail(ps))

RECURSIVE maxX(_)
maxX(ps) ==
    IF Len(ps) = 1 THEN ps[1].x ELSE Max(ps[1].x, maxX(Tail(ps)))

rightmostPipe(ps) == IF Len(ps) > 0 THEN maxX(ps) ELSE HP(screenWidth)

\* a spawn whenever the list is short of the cap
spawnsPipe_noThreshold(ps) == Len(ps) < 10

\* `(rightmostPipe <= screenWidth - pipeSpacing) && newPipes.length < 10`
spawnsPipe(ps) == rightmostPipe(ps) <= HP(screenWidth) - PipeSpacing /\ Len(ps) < 10

\* the pipes after the move and the removal of the off-screen ones
movedPipes(e) ==
    keepOnScreen([i \in 1..Len(e.pipes) |-> movePipe(e.pipes[i], e.birdPosition.x)])

spawns(e) == spawnsPipe(movedPipes(e))

\* a gameLoop that is not made anew when nextPipeId changes: it gives every
\* pipe it adds the id it found when the run began
updatePipes_staleId(e, r) ==
    IF spawns(e)
    THEN Append(movedPipes(e), [id |-> PipesNeeded,
                                x |-> rightmostPipe(movedPipes(e)) + PipeSpacing,
                                topHeight |-> GapY(r),
                                passed |-> FALSE])
    ELSE movedPipes(e)

\* the setPipes updater of gameLoop: move, credit, remove, spawn
updatePipes(e, r) ==
    IF spawns(e)
    THEN Append(movedPipes(e), [id |-> e.nextPipeId,
                                x |-> rightmostPipe(movedPipes(e)) + PipeSpacing,
                                topHeight |-> GapY(r),
                                passed |-> FALSE])
    ELSE movedPipes(e)

creditedNow(e) ==
    {i \in 1..Len(e.pipes) : creditsNow(e.pipes[i], e.birdPosition.x)}

hitsBoundary(newY) ==
    \/ newY + HP(BIRD_COLLISION_OFFSET) <= 0
    \/ newY + HP(BIRD_COLLISION_OFFSET) + HP(BIRD_COLLISION_SIZE) >= HP(screenHeight)

reachesGround(newY) ==
    newY + HP(BIRD_COLLISION_OFFSET) + HP(BIRD_COLLISION_SIZE) >= HP(screenHeight) - HP(50)

\* whether this frame reaches the setPipes updater
updatesPipes(e) ==
    e.gameState = "playing" /\ ~hitsBoundary(e.birdPosition.y + e.birdVelocity + GRAVITY)

\* the body of gameLoop after its early return
frame(e, r) ==
    LET newVelocity == e.birdVelocity + GRAVITY
        newY == e.birdPosition.y + newVelocity
        fell == [e EXCEPT !.birdVelocity = newVelocity, !.birdPosition.y = newY]
    IN  IF e.gameState # "hit" /\ hitsBoundary(newY)
        THEN [fell EXCEPT !.gameState = "hit"]
        ELSE IF e.gameState = "hit"
        THEN IF reachesGround(newY) /\ ~e.hasHitGroundRef
             THEN [fell EXCEPT !.hasHitGroundRef = TRUE,
                               !.gameOverTimers = e.gameOverTimers + 1]
             ELSE fell
        ELSE
        LET newPipes == updatePipes(e, r)
        IN  [fell EXCEPT !.pipes = newPipes,
                         !.score = e.score + Cardinality(creditedNow(e)),
                         !.nextPipeId = IF spawns(e) THEN e.nextPipeId + 1 ELSE e.nextPipeId,
                         !.gameState = IF checkCollision([x |-> e.birdPosition.x, y |-> newY],
                                                         newPipes)
                                       THEN "hit" ELSE "playing"]

\* gameLoop returning early in 'start' only
gameLoop_runsInGameOver(e, r) ==
    IF e.gameState = "start" THEN e ELSE frame(e, r)

\* a game loop whose pipes go on moving after the hit
gameLoop_scrollsInHit(e, r) ==
    IF e.gameState = "playing" THEN frame(e, r)
    ELSE IF e.gameState = "hit" THEN [frame(e, r) EXCEPT !.pipes = movedPipes(e)]
    ELSE e

\* one frame of the game loop
gameLoop(e, r) ==
    IF e.gameState # "playing" /\ e.gameState # "hit" THEN e ELSE frame(e, r)

\* a settle timer whose callback leaves the game state alone
gameOverTimeout_staysHit(e) == [e EXCEPT !.gameOverTimers = e.gameOverTimers - 1]

\* the settle timer's callback
gameOverTimeout(e) ==
    [e EXCEPT !.gameState = "gameOver", !.gameOverTimers = e.gameOverTimers - 1]

----------------------------------------------------------------------------
(* SeededRandom.  A JS number n with |n| < 2^32 is kept as sign and two    *)
(* 16-bit limbs, [neg, hi, lo] with |n| = hi * 2^16 + lo; every product    *)
(* and sum the generator forms stays below 2^53, so the doubles are exact. *)

LIMB == 65536
\* 1664525 = 25 * 2^16 + 26125
LCG_A_HI == 25
LCG_A_LO == 26125
\* 1013904223 = 15470 * 2^16 + 62303
LCG_C_HI == 15470
LCG_C_LO == 62303

Abs(n) == IF n < 0 THEN -n ELSE n

ToNum(n) == [neg |-> n < 0, hi |-> Abs(n) \div LIMB, lo |-> Abs(n) % LIMB]

\* 1664525 * |x| as four limbs, least significant first
mulA(x) ==
    LET p0 == LCG_A_LO * x.lo
        p1 == LCG_A_LO * x.hi + LCG_A_HI * x.lo + p0 \div LIMB
        p2 == LCG_A_HI * x.hi + p1 \div LIMB
    IN  <<p0 % LIMB, p1 % LIMB, p2 % LIMB, p2 \div LIMB>>

\* (1664525 * x + 1013904223) % 0x100000000; the JS remainder takes the
\* sign of the dividend
lcgStep(x) ==
    LET m == mulA(x)
        fits == m[4] = 0 /\ m[3] = 0
                /\ (m[2] < LCG_C_HI \/ (m[2] = LCG_C_HI /\ m[1] <= LCG_C_LO))
    IN  IF ~x.neg
        THEN LET s0 == m[1] + LCG_C_LO
                 s1 == m[2] + LCG_C_HI + s0 \div LIMB
             IN  [neg |-> FALSE, hi |-> s1 % LIMB, lo |-> s0 % LIMB]
        ELSE IF fits
        THEN LET d0 == LCG_C_LO - m[1]
                 d1 == LCG_C_HI - m[2] - (IF d0 < 0 THEN 1 ELSE 0)
             IN  [neg |-> FALSE, hi |-> d1, lo |-> (d0 + LIMB) % LIMB]
        ELSE LET d0 == m[1] - LCG_C_LO
                 d1 == m[2] - LCG_C_HI - (IF d0 < 0 THEN 1 ELSE 0)
                 hi == (d1 + LIMB) % LIMB
                 lo == (d0 + LIMB) % LIMB
             IN  [neg |-> hi # 0 \/ lo # 0, hi |-> hi, lo |-> lo]

\* new SeededRandom(seed): `seed || Math.floor(Math.random() * 1000000)`
SeededRandom(seed, fallback) ==
    LET s == IF seed # 0 THEN seed ELSE fallback
    IN  [seed |-> ToNum(s), current |-> ToNum(s)]

\* next(): the generator after the call; the value returned is
\* current / 0x100000000 of that generator
next(g) == [g EXCEPT !.current = lcgStep(g.current)]

\* the numerator of the value next() returns, over 0x100000000; the division
\* by a power of two is exact, so equal values have equal numerators
returned(g) == g.current

\* reset() leaving the generator where it is
reset_keepsCurrent(g) == g

reset(g) == [g EXCEPT !.current = g.seed]

----------------------------------------------------------------------------
(* The state machine *)

SetEngine(e) ==
    /\ gameState' = e.gameState
    /\ birdPosition' = e.birdPosition
    /\ birdVelocity' = e.birdVelocity
    /\ pipes' = e.pipes
    /\ score' = e.score
    /\ nextPipeId' = e.nextPipeId
    /\ hasHitGroundRef' = e.hasHitGroundRef
    /\ gameOverTimers' = e.gameOverTimers

\* the history entry of an operation: what ran, and the state it ran in
Did(op) == [op |-> op, phase |-> gameState, vel |-> birdVelocity, score |-> score,
            prevOp |-> last.op]

NoCredits == [id \in {} |-> 0]

NoProbe == [called |-> FALSE]

NoGenerator == [seed |-> ToNum(0), current |-> ToNum(0)]

\* no frame callback is requested, gameLoopRef.current is null, and no
\* callback has run; ran is the parity of the number of callbacks run
NoFrames == [pending |-> <<>>, ref |-> 0, ran |-> 0]

Mounted(views) ==
    /\ \E v \in views : screenWidth = v.w /\ screenHeight = v.h
    /\ gameState = "start"
    /\ birdPosition = [x |-> HP(BIRD_START_X), y |-> HP(screenHeight) \div 2]
    /\ birdVelocity = 0
    /\ pipes = <<>>
    /\ score = 0
    /\ nextPipeId = 0
    /\ hasHitGroundRef = FALSE
    /\ gameOverTimers = 0
    /\ raf = NoFrames
    /\ tickCount = 0
    /\ settleCount = 0
    /\ credits = NoCredits
    /\ last = [op |-> "mount", phase |-> "start", vel |-> 0, score |-> 0,
               prevOp |-> "none"]

\* no room exists and no user has opened the lobby
\* no MultiplayerFlappyBirdGame is mounted, no code is being generated
NoSync ==
    /\ sync = [mounted |-> FALSE]
    /\ syncLog = [op |-> "none"]
    /\ lookup = [code |-> <<>>]
    /\ scores = <<>>

NoRooms ==
    /\ NoSync
    /\ rooms = <<>>
    /\ roomPlayers = {}
    /\ clients = <<>>
    /\ countdowns = <<>>
    /\ roomLast = [op |-> "none"]

NoLog == [pass |-> 1, first |-> <<>>, again |-> <<>>]

NoGenerators ==
    /\ rngA = NoGenerator
    /\ rngB = NoGenerator
    /\ rngOut = <<>>
    /\ rngCalls = 0
    /\ rngLog = NoLog

Init ==
    /\ Mounted(Viewports)
    /\ twin = "none"
    /\ NoGenerators
    /\ probe = NoProbe
    /\ directCalls = 0
    /\ NoRooms

\* the random draws a handler makes when it runs in the state of e
DrawsFor(e) == IF e.gameState \in {"start", "gameOver"} THEN StartDraws ELSE {<<>>}

SpawnDraws(e) == IF updatesPipes(e) /\ spawns(e) THEN Draws ELSE {0}

NewRun == gameState \in {"start", "gameOver"}

\* a tap or the SPACE key
HandleFlap ==
    /\ gameState = "playing" => tickCount % FlapPeriod = 0
    /\ \E rnd \in DrawsFor(Engine) : SetEngine(handleFlap(Engine, rnd))
    /\ tickCount' = IF NewRun THEN 0 ELSE tickCount
    /\ settleCount' = IF NewRun THEN 0 ELSE settleCount
    /\ credits' = IF NewRun THEN NoCredits ELSE credits
    /\ last' = Did("flap")
    /\ UNCHANGED <<raf, syncVars, roomVars, screenWidth, screenHeight, twin, rngVars, probe, directCalls>>

\* the restart button of the game-over screen, which is rendered in 'gameOver' only
HandleRestart ==
    /\ gameState = "gameOver"
    /\ \E rnd \in StartDraws : SetEngine(handleRestart(Engine, rnd))
    /\ tickCount' = 0
    /\ settleCount' = 0
    /\ credits' = NoCredits
    /\ last' = Did("restart")
    /\ UNCHANGED <<raf, syncVars, roomVars, screenWidth, screenHeight, twin, rngVars, probe, directCalls>>

AddCredits(e) ==
    LET ids == {e.pipes[i].id : i \in creditedNow(e)}
    IN  [id \in DOMAIN credits \cup ids |->
            (IF id \in DOMAIN credits THEN credits[id] ELSE 0)
            + Cardinality({i \in creditedNow(e) : e.pipes[i].id = id})]

\* whether this frame schedules the settle timer
schedulesTimeout(e) ==
    /\ e.gameState = "hit"
    /\ ~e.hasHitGroundRef
    /\ reachesGround(e.birdPosition.y + e.birdVelocity + GRAVITY)

\* a frame callback
GameLoop ==
    /\ gameState = "playing" => tickCount < MaxTicks
    /\ (gameState = "hit" /\ hasHitGroundRef) => settleCount < MaxSettleTicks
    /\ schedulesTimeout(Engine) => gameOverTimers < MaxPendingTimers
    /\ \E r \in SpawnDraws(Engine) : SetEngine(gameLoop(Engine, r))
    /\ tickCount' = IF gameState = "playing" THEN tickCount + 1 ELSE tickCount
    /\ settleCount' = IF gameState = "hit" /\ hasHitGroundRef
                      THEN settleCount + 1 ELSE settleCount
    /\ credits' = IF updatesPipes(Engine) THEN AddCredits(Engine) ELSE credits
    /\ last' = Did("tick")
    /\ UNCHANGED <<raf, syncVars, roomVars, screenWidth, screenHeight, twin, rngVars, probe, directCalls>>

\* the settle timer fires
GameOverTimeout ==
    /\ gameOverTimers > 0
    /\ SetEngine(gameOverTimeout(Engine))
    /\ last' = Did("timeout")
    /\ UNCHANGED <<raf, syncVars, roomVars, screenWidth, screenHeight, tickCount, settleCount, credits,
                   twin, rngVars, probe, directCalls>>

Next == HandleFlap \/ HandleRestart \/ GameLoop \/ GameOverTimeout

Spec == Init /\ [][Next]_vars

----------------------------------------------------------------------------
(* The game in a window lower than 300 px, such as a landscape phone or a   *)
(* small browser window: Dimensions.get('window') is whatever the window is *)

LowViewports == { [w |-> 200, h |-> 280], [w |-> 1200, h |-> 280] }

InitLow ==
    /\ Mounted(LowViewports)
    /\ twin = "none"
    /\ NoGenerators
    /\ probe = NoProbe
    /\ directCalls = 0
    /\ NoRooms

SpecLow == InitLow /\ [][Next]_vars

----------------------------------------------------------------------------
(* startGame and handleRestart called directly, in whatever phase *)

InitDirect ==
    /\ Mounted(DirectViewports)
    /\ twin = "none"
    /\ NoGenerators
    /\ probe = NoProbe
    /\ directCalls = 0
    /\ NoRooms

StartGameCall ==
    /\ directCalls < MaxDirectCalls
    /\ \E rnd \in StartDraws : SetEngine(startGame(Engine, rnd))
    /\ tickCount' = 0
    /\ settleCount' = 0
    /\ credits' = NoCredits
    /\ last' = Did("startGame")
    /\ directCalls' = directCalls + 1
    /\ UNCHANGED <<raf, syncVars, roomVars, screenWidth, screenHeight, twin, rngVars, probe>>

HandleRestartCall ==
    /\ directCalls < MaxDirectCalls
    /\ \E rnd \in StartDraws : SetEngine(handleRestart(Engine, rnd))
    /\ tickCount' = 0
    /\ settleCount' = 0
    /\ credits' = NoCredits
    /\ last' = Did("handleRestart")
    /\ directCalls' = directCalls + 1
    /\ UNCHANGED <<raf, syncVars, roomVars, screenWidth, screenHeight, twin, rngVars, probe>>

DirectGameLoop == tickCount < DirectMaxTicks /\ GameLoop

DirectHandleFlap ==
    /\ gameState = "playing" => tickCount % DirectFlapPeriod = 0
    /\ HandleFlap

NextDirect ==
    DirectHandleFlap \/ HandleRestart \/ DirectGameLoop \/ GameOverTimeout
    \/ StartGameCall \/ HandleRestartCall

SpecDirect == InitDirect /\ [][NextDirect]_vars

\* frames: the length of a run is bounded, the fall after the hit is not
LiveGameLoop == (gameState = "playing" => tickCount < DirectMaxTicks) /\ GameLoop

NextLive == DirectHandleFlap \/ HandleRestart \/ LiveGameLoop \/ GameOverTimeout

\* when LiveGameLoop can run: a frame callback is requested or not wanted
frameEnabled ==
    /\ gameState = "playing" => tickCount < DirectMaxTicks
    /\ (gameState = "hit" /\ hasHitGroundRef) => settleCount < MaxSettleTicks
    /\ schedulesTimeout(Engine) => gameOverTimers < MaxPendingTimers

\* the browser goes on calling the frame callbacks that are requested: weak
\* fairness of LiveGameLoop, whose steps are the steps that log a tick
FairFrames == []<>(~frameEnabled) \/ []<><<last'.op = "tick">>_vars

\* frames keep coming, and a timer that has been set fires
SpecLive ==
    Init /\ [][NextLive]_vars /\ FairFrames /\ WF_vars(GameOverTimeout)

----------------------------------------------------------------------------
(* The frame loop: the callbacks requested with requestAnimationFrame and  *)
(* not yet run, and gameLoopRef.  A callback is the gameLoop of the render *)
(* that requested it, so it carries that render's gameState and            *)
(* nextPipeId.  A handler, the render it causes and the effects of that    *)
(* render are one step.                                                    *)

\* the render whose gameLoop a callback is
closureOf(e) == [gameState |-> e.gameState, nextPipeId |-> e.nextPipeId]

\* a request id that no earlier request of this state has
freshId(f) ==
    LET used == {f.pending[i].id : i \in DOMAIN f.pending} \cup {f.ref}
    IN  1 + CHOOSE m \in used : \A n \in used : n <= m

requestAnimationFrame(f, closure) ==
    [f EXCEPT !.pending = Append(@, [id |-> freshId(f), closure |-> closure]),
              !.ref = freshId(f)]

\* the request ids are opaque: the requested callbacks are numbered from 1
\* in the order of their requests, and a gameLoopRef that names a callback
\* already run or cancelled names callback Gone
Gone == -1

renumbered(f) ==
    LET at == {i \in DOMAIN f.pending : f.pending[i].id = f.ref}
    IN  [f EXCEPT !.pending = [i \in DOMAIN f.pending |-> [f.pending[i] EXCEPT !.id = i]],
                  !.ref = IF f.ref = 0 THEN 0
                          ELSE IF at = {} THEN Gone
                          ELSE CHOOSE i \in at : TRUE]

\* cancelAnimationFrame(gameLoopRef.current), behind its if (gameLoopRef.current)
cancelAnimationFrame(f) ==
    IF f.ref # 0
    THEN [f EXCEPT !.pending = SelectSeq(@, LAMBDA cb : cb.id # f.ref)]
    ELSE f

\* the effect without the cleanup of the render before it
useEffect_noCleanup(f, before, after) ==
    IF closureOf(before) = closureOf(after)
    THEN f
    ELSE IF after.gameState \in {"playing", "hit"}
         THEN requestAnimationFrame(f, closureOf(after))
         ELSE [cancelAnimationFrame(f) EXCEPT !.ref = 0]

\* the effect on [gameState, gameLoop] after a render: when a dependency
\* changed, the cleanup of the render before it and then the effect
useEffect(f, before, after) ==
    IF closureOf(before) = closureOf(after)
    THEN f
    ELSE LET cleaned == cancelAnimationFrame(f)
         IN  IF after.gameState \in {"playing", "hit"}
             THEN requestAnimationFrame(cleaned, closureOf(after))
             ELSE [cancelAnimationFrame(cleaned) EXCEPT !.ref = 0]

\* the state a callback reads: its own render's gameState and nextPipeId,
\* the current value of everything it reads in an updater
seenBy(cb, e) ==
    [e EXCEPT !.gameState = cb.closure.gameState, !.nextPipeId = cb.closure.nextPipeId]

\* gameLoop as the callback cb runs it: setGameState is called only on the
\* hit, setNextPipeId adds to the current value
runCallback(cb, e, r) ==
    LET out == gameLoop(seenBy(cb, e), r)
    IN  [out EXCEPT !.gameState = IF out.gameState = cb.closure.gameState
                                  THEN e.gameState ELSE out.gameState,
                    !.nextPipeId = e.nextPipeId + (out.nextPipeId - cb.closure.nextPipeId)]

\* the last line of gameLoop, which the early return of 'start' and
\* 'gameOver' does not reach
reschedule(f, cb) ==
    IF cb.closure.gameState \in {"playing", "hit"}
    THEN requestAnimationFrame(f, cb.closure)
    ELSE f

\* the browser runs the oldest requested callback
FrameCallback ==
    /\ raf.pending # <<>>
    /\ LET cb == Head(raf.pending)
           e == seenBy(cb, Engine)
       IN  /\ e.gameState = "playing" => tickCount < MaxTicks
           /\ (e.gameState = "hit" /\ hasHitGroundRef) => settleCount < MaxSettleTicks
           /\ schedulesTimeout(e) => gameOverTimers < MaxPendingTimers
           /\ \E r \in SpawnDraws(e) : SetEngine(runCallback(cb, Engine, r))
           /\ tickCount' = IF e.gameState = "playing" THEN tickCount + 1 ELSE tickCount
           /\ settleCount' = IF e.gameState = "hit" /\ hasHitGroundRef
                             THEN settleCount + 1 ELSE settleCount
           /\ credits' = IF updatesPipes(e) THEN AddCredits(e) ELSE credits
           /\ last' = Did("tick")
           /\ raf' = renumbered(useEffect(
                         reschedule([raf EXCEPT !.pending = Tail(@), !.ran = 1 - @], cb),
                         Engine, Engine'))
    /\ UNCHANGED <<syncVars, roomVars, screenWidth, screenHeight, twin, rngVars, probe, directCalls>>

\* a tap or the SPACE key, and the render after it
FrameHandleFlap ==
    /\ gameState = "playing" => tickCount % FlapPeriod = 0
    /\ \E rnd \in DrawsFor(Engine) : SetEngine(handleFlap(Engine, rnd))
    /\ tickCount' = IF NewRun THEN 0 ELSE tickCount
    /\ settleCount' = IF NewRun THEN 0 ELSE settleCount
    /\ credits' = IF NewRun THEN NoCredits ELSE credits
    /\ last' = Did("flap")
    /\ raf' = renumbered(useEffect(raf, Engine, Engine'))
    /\ UNCHANGED <<syncVars, roomVars, screenWidth, screenHeight, twin, rngVars, probe, directCalls>>

\* the restart button, and the render after it
FrameHandleRestart ==
    /\ gameState = "gameOver"
    /\ \E rnd \in StartDraws : SetEngine(handleRestart(Engine, rnd))
    /\ tickCount' = 0
    /\ settleCount' = 0
    /\ credits' = NoCredits
    /\ last' = Did("restart")
    /\ raf' = renumbered(useEffect(raf, Engine, Engine'))
    /\ UNCHANGED <<syncVars, roomVars, screenWidth, screenHeight, twin, rngVars, probe, directCalls>>

\* the settle timer fires, and the render after it
FrameGameOverTimeout ==
    /\ gameOverTimers > 0
    /\ SetEngine(gameOverTimeout(Engine))
    /\ last' = Did("timeout")
    /\ raf' = renumbered(useEffect(raf, Engine, Engine'))
    /\ UNCHANGED <<syncVars, roomVars, screenWidth, screenHeight, tickCount, settleCount, credits,
                   twin, rngVars, probe, directCalls>>

NextFrames == FrameHandleFlap \/ FrameHandleRestart \/ FrameCallback \/ FrameGameOverTimeout

SpecFrames == InitDirect /\ [][NextFrames]_vars

----------------------------------------------------------------------------
(* Two clients of one room: two game instances given the same inputs at    *)
(* the same frames.  The component takes no seed: the room's random_seed   *)
(* is stored by createRoom and read by no client, and every gap height is  *)
(* a Math.random() draw of the instance that makes it.                     *)

InitPair ==
    /\ Mounted(PairViewports)
    /\ twin = NewEngine
    /\ NoGenerators
    /\ probe = NoProbe
    /\ directCalls = 0
    /\ NoRooms

PairFlap ==
    /\ gameState = "playing" => tickCount % FlapPeriod = 0
    /\ \E rnd \in DrawsFor(Engine) : SetEngine(handleFlap(Engine, rnd))
    /\ \E rnd \in DrawsFor(twin) : twin' = handleFlap(twin, rnd)
    /\ tickCount' = IF NewRun THEN 0 ELSE tickCount
    /\ settleCount' = IF NewRun THEN 0 ELSE settleCount
    /\ credits' = IF NewRun THEN NoCredits ELSE credits
    /\ last' = Did("flap")
    /\ UNCHANGED <<raf, syncVars, roomVars, screenWidth, screenHeight, rngVars, probe, directCalls>>

PairGameLoop ==
    /\ tickCount < PairMaxTicks
    /\ \E r \in SpawnDraws(Engine) : SetEngine(gameLoop(Engine, r))
    /\ \E r \in SpawnDraws(twin) : twin' = gameLoop(twin, r)
    /\ tickCount' = tickCount + 1
    /\ credits' = IF updatesPipes(Engine) THEN AddCredits(Engine) ELSE credits
    /\ last' = Did("tick")
    /\ UNCHANGED <<raf, syncVars, roomVars, screenWidth, screenHeight, settleCount, rngVars, probe, directCalls>>

PairTimeout ==
    /\ gameOverTimers > 0 \/ twin.gameOverTimers > 0
    /\ IF gameOverTimers > 0 THEN SetEngine(gameOverTimeout(Engine))
                             ELSE UNCHANGED engineVars
    /\ twin' = IF twin.gameOverTimers > 0 THEN gameOverTimeout(twin) ELSE twin
    /\ last' = Did("timeout")
    /\ UNCHANGED <<raf, syncVars, roomVars, screenWidth, screenHeight, tickCount, settleCount, credits,
                   rngVars, probe, directCalls>>

NextPair == PairFlap \/ PairGameLoop \/ PairTimeout

SpecPair == InitPair /\ [][NextPair]_vars

----------------------------------------------------------------------------
(* Two SeededRandom generators constructed with the same seed argument and *)
(* called in step                                                          *)

InitRng ==
    /\ Mounted(DirectViewports)
    /\ twin = "none"
    /\ probe = NoProbe
    /\ directCalls = 0
    /\ NoRooms
    /\ \E s \in Seeds : \E fa \in FallbackSeeds : \E fb \in FallbackSeeds :
          /\ rngA = SeededRandom(s, fa)
          /\ rngB = SeededRandom(s, fb)
          /\ rngOut = <<"new", s>>
    /\ rngCalls = 0
    /\ rngLog = NoLog

\* next() on both generators; after a reset() the calls of the first pass
\* are made again
RngNext ==
    /\ rngCalls < MaxCalls
    /\ rngLog.pass = 2 => rngCalls < Len(rngLog.first)
    /\ rngA' = next(rngA)
    /\ rngB' = next(rngB)
    /\ rngOut' = <<"next", rngOut[2], returned(rngA'), returned(rngB')>>
    /\ rngCalls' = rngCalls + 1
    /\ rngLog' = IF rngLog.pass = 1
                  THEN [rngLog EXCEPT !.first = Append(@, returned(rngA'))]
                  ELSE [rngLog EXCEPT !.again = Append(@, returned(rngA'))]
    /\ UNCHANGED <<raf, syncVars, roomVars, screenWidth, screenHeight, engineVars, histVars, twin, probe, directCalls>>

\* reset() on both generators
RngReset ==
    /\ rngLog.pass = 1
    /\ rngCalls > 0
    /\ rngA' = reset(rngA)
    /\ rngB' = reset(rngB)
    /\ rngOut' = <<"reset", rngOut[2]>>
    /\ rngCalls' = 0
    /\ rngLog' = [rngLog EXCEPT !.pass = 2]
    /\ UNCHANGED <<raf, syncVars, roomVars, screenWidth, screenHeight, engineVars, histVars, twin, probe, directCalls>>

NextRng == RngNext \/ RngReset

SpecRng == InitRng /\ [][NextRng]_vars

----------------------------------------------------------------------------
(* checkCollision applied to bird positions and pipe lists *)

InitCollide ==
    /\ Mounted(Viewports)
    /\ twin = "none"
    /\ NoGenerators
    /\ probe = NoProbe
    /\ directCalls = 0
    /\ NoRooms

\* every half-pixel position of the bird from the top edge to the bottom edge
ProbeYs ==
    (-HP(BIRD_COLLISION_OFFSET) - 4) ..
    (HP(screenHeight) - HP(BIRD_COLLISION_OFFSET) - HP(BIRD_COLLISION_SIZE) + 4)

\* pipes left of, at the edges of, under and right of the collision box
ProbePipe ==
    [id : {0}, x : {80, 81, 200, 339, 340}, topHeight : {GapY(r) : r \in RandomSamples},
     passed : {FALSE}]

ProbePipes == {<<>>} \cup {<<p>> : p \in ProbePipe}
              \cup {<<p, q>> : p \in ProbePipe, q \in ProbePipe}

CheckCollision ==
    /\ ~probe.called
    /\ \E y \in ProbeYs : \E ps \in ProbePipes :
          LET pos == [x |-> HP(BIRD_START_X), y |-> y]
          IN  probe' = [called |-> TRUE, birdPos |-> pos, currentPipes |-> ps,
                        result |-> checkCollision(pos, ps)]
    /\ UNCHANGED <<raf, syncVars, roomVars, screenWidth, screenHeight, engineVars, histVars, twin, rngVars,
                   directCalls>>

NextCollide == CheckCollision

SpecCollide == InitCollide /\ [][NextCollide]_vars

----------------------------------------------------------------------------
(* Multiplayer rooms: the tables rooms and room_players, the lobby's       *)
(* handlers (LobbyScreen, RoomScreen) and MultiplayerService.  A handler   *)
(* that awaits the database between its reads and its writes is a          *)
(* sequence of steps, one per database call; pc is the step a user's       *)
(* handler is at.                                                          *)

\* the users of a room with its ready and start buttons
RoomUsers == {"host", "p1", "p2"}
\* the host of a room and the users who try to join it one after another
JoinUsers == {"host", "j1", "j2", "j3", "j4", "j5", "j6"}
\* the users who create rooms
CreateUsers == {"c1", "c2"}
\* the codes generateRoomCode draws from
Codes == {"ABCDEF", "GHJKLM"}
\* createRoom calls that reach the insert
MaxRooms == 2
\* pending countdown timers
MaxCountdowns == 1

\* `players.length >= 5`
MAX_PLAYERS == 5
\* `while (attempts < 10)`
MAX_CODE_ATTEMPTS == 10

Idle ==
    [pc |-> "idle", room |-> 0, isHost |-> FALSE, target |-> 0, code |-> "",
     attempts |-> 0, verified |-> FALSE, seenReady |-> 0, loading |-> FALSE]

\* a row of room_players as an insert leaves it: the columns' defaults
NewPlayer(id, u) ==
    [room |-> id, user |-> u, ready |-> FALSE, alive |-> TRUE, score |-> 0,
     birdY |-> <<>>]

playersOf(id) == {p \in roomPlayers : p.room = id}

readyCount(id) == Cardinality({p \in playersOf(id) : p.ready})

isPlayer(id, u) == \E p \in playersOf(id) : p.user = u

\* `.from('rooms').select(...).eq('code', code)`
roomsWithCode(code) == {i \in 1..Len(rooms) : rooms[i].code = code}

\* `.eq('code', ...).eq('state', 'waiting').limit(1)`
waitingRoomsWithCode(code) == {i \in roomsWithCode(code) : rooms[i].state = "waiting"}

\* `.from('room_players').select('id').eq('room_id', room.id)`: the rows
\* carry the id column only
selectId(id) == {[id |-> <<p.room, p.user>>] : p \in playersOf(id)}

\* `players?.find(p => p.user_id === user.id)` on such rows
existingPlayer(rows, u) ==
    \E p \in rows : "user_id" \in DOMAIN p /\ p["user_id"] = u

\* an UPDATE of rooms under the policy "Users can update their own rooms":
\* for another user it matches no row and reports no error
updateRoomState(u, id, st) ==
    IF id \in 1..Len(rooms) /\ rooms[id].host = u
    THEN [rooms EXCEPT ![id].state = st]
    ELSE rooms

\* a DELETE of rooms: no policy allows it, so it matches no row
deleteRoom(u, id) == rooms

\* the history entry of a step: what ran, by whom, on which room, and what
\* the room looked like when it ran
RoomDid(op, u, id, result, done) ==
    [op |-> op, user |-> u, room |-> id, result |-> result, done |-> done,
     state |-> IF id \in 1..Len(rooms) THEN rooms[id].state ELSE "none",
     host |-> IF id \in 1..Len(rooms) THEN rooms[id].host ELSE "none",
     ready |-> readyCount(id),
     count |-> Cardinality(playersOf(id)),
     member |-> isPlayer(id, u)]

\* user u's handler returns
Return(u) ==
    [clients[u] EXCEPT !.pc = "idle", !.target = 0, !.code = "", !.attempts = 0,
                       !.verified = FALSE]

roomTables == <<rooms, roomPlayers>>
gameVars == <<screenWidth, screenHeight, engineVars, histVars, twin, rngVars, probe,
              directCalls, raf>>

\* the lobby is on screen: no game has been mounted yet
InLobby ==
    /\ Mounted(DirectViewports)
    /\ twin = "none"
    /\ NoGenerators
    /\ probe = NoProbe
    /\ directCalls = 0

(* LobbyScreen.handleCreateRoom *)

\* generate a code and enter the uniqueness loop
CreateRoomBegin(u) ==
    /\ clients[u].pc = "idle"
    /\ clients[u].room = 0
    /\ Len(rooms) < MaxRooms
    /\ \E code \in Codes :
          clients' = [clients EXCEPT ![u].pc = "check", ![u].code = code,
                                     ![u].attempts = 0]
    /\ roomLast' = RoomDid("handleCreateRoom", u, 0, "none", FALSE)
    /\ UNCHANGED <<syncVars, gameVars, roomTables, countdowns>>

\* one turn of `while (attempts < 10)`: look the code up
CreateRoomCheck(u) ==
    /\ clients[u].pc = "check"
    /\ IF clients[u].attempts >= MAX_CODE_ATTEMPTS
       THEN clients' = [clients EXCEPT ![u].pc = "insertRoom", ![u].verified = FALSE]
       ELSE \E checkError \in BOOLEAN :
               IF checkError
               THEN clients' = [clients EXCEPT ![u].pc = "insertRoom",
                                               ![u].verified = FALSE]
               ELSE IF roomsWithCode(clients[u].code) = {}
               THEN clients' = [clients EXCEPT ![u].pc = "insertRoom",
                                               ![u].verified = TRUE]
               ELSE \E code \in Codes :
                       clients' = [clients EXCEPT ![u].code = code,
                                                  ![u].attempts = @ + 1]
    /\ roomLast' = RoomDid("handleCreateRoom", u, 0, "none", FALSE)
    /\ UNCHANGED <<syncVars, gameVars, roomTables, countdowns>>

\* insert the room; the code column is UNIQUE
CreateRoomInsert(u) ==
    /\ clients[u].pc = "insertRoom"
    /\ \E roomError \in BOOLEAN :
          IF roomError \/ roomsWithCode(clients[u].code) # {}
          THEN /\ clients' = [clients EXCEPT ![u] = Return(u)]
               /\ roomLast' = RoomDid("handleCreateRoom", u, 0, "Error", TRUE)
               /\ UNCHANGED rooms
          ELSE /\ rooms' = Append(rooms, [code |-> clients[u].code, state |-> "waiting",
                                          host |-> u, verified |-> clients[u].verified,
                                          random_seed |-> <<>>])
               /\ clients' = [clients EXCEPT ![u].pc = "insertPlayer",
                                             ![u].target = Len(rooms) + 1]
               /\ roomLast' = RoomDid("handleCreateRoom", u, Len(rooms) + 1, "none", FALSE)
    /\ UNCHANGED <<syncVars, gameVars, roomPlayers, countdowns>>

\* insert the host's player record; delete the room again if that fails
CreateRoomInsertPlayer(u) ==
    /\ clients[u].pc = "insertPlayer"
    /\ \E playerError \in BOOLEAN :
          IF playerError
          THEN /\ rooms' = deleteRoom(u, clients[u].target)
               /\ clients' = [clients EXCEPT ![u] = Return(u)]
               /\ roomLast' = RoomDid("handleCreateRoom", u, clients[u].target, "Error", TRUE)
               /\ UNCHANGED roomPlayers
          ELSE /\ roomPlayers' = roomPlayers \cup
                     {NewPlayer(clients[u].target, u)}
               /\ clients' = [clients EXCEPT ![u] = [Return(u) EXCEPT
                                 !.room = clients[u].target, !.isHost = TRUE]]
               /\ roomLast' = RoomDid("handleCreateRoom", u, clients[u].target, "ok", TRUE)
               /\ UNCHANGED rooms
    /\ UNCHANGED <<syncVars, gameVars, countdowns>>

(* MultiplayerService.createRoom *)

\* Math.floor(Math.random() * 1000000), with Math.random() = r / 100
randomSeed(r) == (r * 1000000) \div 100

SvcCreateRoom(u) ==
    /\ clients[u].pc = "idle"
    /\ clients[u].room = 0
    /\ Len(rooms) < MaxRooms
    /\ \E code \in Codes : \E error \in BOOLEAN : \E r \in RandomSamples :
          IF error \/ roomsWithCode(code) # {}
          THEN /\ clients' = [clients EXCEPT ![u] = Return(u)]
               /\ roomLast' = RoomDid("createRoom", u, 0, "Error", TRUE)
               /\ UNCHANGED rooms
          ELSE /\ rooms' = Append(rooms, [code |-> code, state |-> "waiting",
                                          host |-> u, verified |-> FALSE,
                                          random_seed |-> <<randomSeed(r)>>])
               /\ clients' = [clients EXCEPT ![u] = [Return(u) EXCEPT
                                 !.room = Len(rooms) + 1]]
               /\ roomLast' = RoomDid("createRoom", u, Len(rooms) + 1, "ok", TRUE)
    /\ UNCHANGED <<syncVars, gameVars, roomPlayers, countdowns>>

(* LobbyScreen.handleJoinRoom *)

\* look for a waiting room with the code typed in
JoinFind(u) ==
    /\ clients[u].pc = "idle"
    /\ \E code \in Codes :
          IF waitingRoomsWithCode(code) = {}
          THEN /\ clients' = [clients EXCEPT ![u] = Return(u)]
               /\ roomLast' = RoomDid("handleJoinRoom", u, 0, "NotFound", TRUE)
          ELSE \E id \in waitingRoomsWithCode(code) :
                  /\ clients' = [clients EXCEPT ![u].pc = "count", ![u].target = id]
                  /\ roomLast' = RoomDid("handleJoinRoom", u, id, "none", FALSE)
    /\ UNCHANGED <<syncVars, gameVars, roomTables, countdowns>>

\* handleJoinRoom without the test for a full room
JoinCount_skipsFullCheck(u) ==
    /\ clients[u].pc = "count"
    /\ clients' = [clients EXCEPT ![u].pc = "insert"]
    /\ roomLast' = RoomDid("handleJoinRoom", u, clients[u].target, "none", FALSE)
    /\ UNCHANGED <<syncVars, gameVars, roomTables, countdowns>>

\* read the room's players, refuse a full room, look for the user's record
JoinCount(u) ==
    /\ clients[u].pc = "count"
    /\ LET room == clients[u].target
           players == selectId(room)
       IN  IF Cardinality(players) >= MAX_PLAYERS
           THEN /\ clients' = [clients EXCEPT ![u] = Return(u)]
                /\ roomLast' = RoomDid("handleJoinRoom", u, room, "RoomFull", TRUE)
           ELSE IF existingPlayer(players, u)
           THEN /\ clients' = [clients EXCEPT ![u] = [Return(u) EXCEPT
                                  !.room = room, !.isHost = (rooms[room].host = u)]]
                /\ roomLast' = RoomDid("handleJoinRoom", u, room, "ok", TRUE)
           ELSE /\ clients' = [clients EXCEPT ![u].pc = "insert"]
                /\ roomLast' = RoomDid("handleJoinRoom", u, room, "none", FALSE)
    /\ UNCHANGED <<syncVars, gameVars, roomTables, countdowns>>

\* insert the user's record; (room_id, user_id) is UNIQUE
JoinInsert(u) ==
    /\ clients[u].pc = "insert"
    /\ LET room == clients[u].target
       IN  IF isPlayer(room, u)
           THEN /\ clients' = [clients EXCEPT ![u] = Return(u)]
                /\ roomLast' = RoomDid("handleJoinRoom", u, room, "Error", TRUE)
                /\ UNCHANGED roomPlayers
           ELSE /\ roomPlayers' = roomPlayers \cup
                      {NewPlayer(room, u)}
                /\ clients' = [clients EXCEPT ![u] = [Return(u) EXCEPT
                                  !.room = room, !.isHost = (rooms[room].host = u)]]
                /\ roomLast' = RoomDid("handleJoinRoom", u, room, "ok", TRUE)
    /\ UNCHANGED <<syncVars, gameVars, rooms, countdowns>>

(* MultiplayerService.joinRoom: it reads and writes no table *)

SvcJoinRoom(u) ==
    /\ clients[u].pc = "idle"
    /\ \E code \in Codes :
          IF waitingRoomsWithCode(code) = {}
          THEN /\ roomLast' = RoomDid("joinRoom", u, 0, "NotFound", TRUE)
               /\ UNCHANGED clients
          ELSE \E id \in waitingRoomsWithCode(code) :
                  IF Cardinality(selectId(id)) >= MAX_PLAYERS
                  THEN /\ roomLast' = RoomDid("joinRoom", u, id, "RoomFull", TRUE)
                       /\ UNCHANGED clients
                  ELSE /\ clients' = [clients EXCEPT ![u].room = id]
                       /\ roomLast' = RoomDid("joinRoom", u, id, "ok", TRUE)
    /\ UNCHANGED <<syncVars, gameVars, roomTables, countdowns>>

\* no handler is between two of its steps
AllIdle == \A u \in DOMAIN clients : clients[u].pc = "idle"

\* the room the host has created, the other users still in the lobby
RoomCreated(users) ==
    /\ InLobby
    /\ NoSync
    /\ rooms = <<[code |-> "ABCDEF", state |-> "waiting", host |-> "host",
                  verified |-> TRUE, random_seed |-> <<>>]>>
    /\ roomPlayers = {NewPlayer(1, "host")}
    /\ clients = [u \in users |->
                     IF u = "host" THEN [Idle EXCEPT !.room = 1, !.isHost = TRUE]
                     ELSE Idle]
    /\ countdowns = <<>>
    /\ roomLast = [op |-> "none"]

InitJoin == RoomCreated(JoinUsers)

\* joins one after another: a call begins when no other call is running
NextJoin ==
    \/ \E u \in JoinUsers : AllIdle /\ JoinFind(u)
    \/ \E u \in JoinUsers : JoinCount(u)
    \/ \E u \in JoinUsers : JoinInsert(u)
    \/ \E u \in JoinUsers : AllIdle /\ SvcJoinRoom(u)

SpecJoin == InitJoin /\ [][NextJoin]_vars

\* the users who join at the same time, and those already in the room
Racers == {"j4", "j5", "j6"}
Joined == JoinUsers \ Racers

\* the room of the host after three users have joined it
InitRace ==
    /\ InLobby
    /\ NoSync
    /\ rooms = <<[code |-> "ABCDEF", state |-> "waiting", host |-> "host",
                  verified |-> TRUE, random_seed |-> <<>>]>>
    /\ roomPlayers = {NewPlayer(1, u) : u \in Joined}
    /\ clients = [u \in JoinUsers |->
                     IF u \in Joined THEN [Idle EXCEPT !.room = 1, !.isHost = (u = "host")]
                     ELSE Idle]
    /\ countdowns = <<>>
    /\ roomLast = [op |-> "none"]

\* joins at the same time: the steps of the calls of different users
\* interleave, each step being one request to the database
NextRace ==
    \/ \E u \in Racers : JoinFind(u)
    \/ \E u \in Racers : JoinCount(u)
    \/ \E u \in Racers : JoinInsert(u)

SpecRace == InitRace /\ [][NextRace]_vars

(* RoomScreen *)

\* loadPlayers: the list of players the screen shows and counts
LoadPlayers(u) ==
    /\ clients[u].pc = "idle"
    /\ clients[u].room # 0
    /\ clients[u].seenReady # readyCount(clients[u].room)
    /\ clients' = [clients EXCEPT ![u].seenReady = readyCount(clients[u].room)]
    /\ roomLast' = RoomDid("loadPlayers", u, clients[u].room, "ok", TRUE)
    /\ UNCHANGED <<syncVars, gameVars, roomTables, countdowns>>

\* handleToggleReady: the button is rendered for the users who are not host
handleToggleReady(u) ==
    {IF p.room = clients[u].room /\ p.user = u THEN [p EXCEPT !.ready = ~p.ready] ELSE p :
        p \in roomPlayers}

HandleToggleReady(u) ==
    /\ clients[u].pc = "idle"
    /\ clients[u].room # 0
    /\ ~clients[u].isHost
    /\ isPlayer(clients[u].room, u)
    /\ roomPlayers' = handleToggleReady(u)
    /\ roomLast' = RoomDid("handleToggleReady", u, clients[u].room, "ok", TRUE)
    /\ UNCHANGED <<syncVars, gameVars, rooms, clients, countdowns>>

\* handleStartGame: the button is rendered for the host and is disabled
\* while loading; the handler counts the ready players of its list
handleStartGame(u) ==
    IF clients[u].seenReady < 2
    THEN rooms
    ELSE updateRoomState(u, clients[u].room, "playing")

HandleStartGame(u) ==
    /\ clients[u].pc = "idle"
    /\ clients[u].room # 0
    /\ clients[u].isHost
    /\ ~clients[u].loading
    /\ rooms' = handleStartGame(u)
    /\ clients' = [clients EXCEPT ![u].loading = (clients[u].seenReady >= 2)]
    /\ roomLast' = RoomDid("handleStartGame", u, clients[u].room,
                           IF clients[u].seenReady < 2 THEN "NotEnoughPlayers" ELSE "ok",
                           TRUE)
    /\ UNCHANGED <<syncVars, gameVars, roomPlayers, countdowns>>

(* MultiplayerService.startGame, its countdown, finishGame *)

svcStartGame(u) == updateRoomState(u, clients[u].room, "starting")

SvcStartGame(u) ==
    /\ clients[u].pc = "idle"
    /\ clients[u].room # 0
    /\ Len(countdowns) < MaxCountdowns
    /\ rooms' = svcStartGame(u)
    /\ countdowns' = Append(countdowns, u)
    /\ roomLast' = RoomDid("startGame", u, clients[u].room, "ok", TRUE)
    /\ UNCHANGED <<syncVars, gameVars, roomPlayers, clients>>

\* the callback of setTimeout(..., 3000)
countdown(u) == updateRoomState(u, clients[u].room, "playing")

Countdown ==
    /\ countdowns # <<>>
    /\ rooms' = countdown(Head(countdowns))
    /\ countdowns' = Tail(countdowns)
    /\ roomLast' = RoomDid("countdown", Head(countdowns), clients[Head(countdowns)].room,
                           "ok", TRUE)
    /\ UNCHANGED <<syncVars, gameVars, roomPlayers, clients>>

finishGame(u) == updateRoomState(u, clients[u].room, "finished")

SvcFinishGame(u) ==
    /\ clients[u].pc = "idle"
    /\ clients[u].room # 0
    /\ rooms' = finishGame(u)
    /\ roomLast' = RoomDid("finishGame", u, clients[u].room, "ok", TRUE)
    /\ UNCHANGED <<syncVars, gameVars, roomPlayers, clients, countdowns>>

InitRoom == RoomCreated(RoomUsers)

\* the handlers of the three users in any interleaving of their steps
NextRoom ==
    \/ \E u \in RoomUsers : JoinFind(u)
    \/ \E u \in RoomUsers : JoinCount(u)
    \/ \E u \in RoomUsers : JoinInsert(u)
    \/ \E u \in RoomUsers : LoadPlayers(u)
    \/ \E u \in RoomUsers : HandleToggleReady(u)
    \/ \E u \in RoomUsers : HandleStartGame(u)
    \/ \E u \in RoomUsers : SvcStartGame(u)
    \/ Countdown
    \/ \E u \in RoomUsers : SvcFinishGame(u)

SpecRoom == InitRoom /\ [][NextRoom]_vars

(* MultiplayerService: the reports of a player and leaveRoom *)

\* scores a player reports
ReportScores == {0, 3}
\* bird positions a player reports (half-pixels)
ReportYs == {HP(150)}

\* an update of every row of the room
updateOwn_wholeRoom(u, id, fields) ==
    {IF p.room = id
     THEN [k \in DOMAIN p |-> IF k \in DOMAIN fields THEN fields[k] ELSE p[k]]
     ELSE p : p \in roomPlayers}

\* `.update(fields).eq('room_id', id).eq('user_id', u)`
updateOwn(u, id, fields) ==
    {IF p.room = id /\ p.user = u
     THEN [k \in DOMAIN p |-> IF k \in DOMAIN fields THEN fields[k] ELSE p[k]]
     ELSE p : p \in roomPlayers}

\* `.delete().eq('room_id', id).eq('user_id', u)`
deleteOwn(u, id) == {p \in roomPlayers : ~(p.room = id /\ p.user = u)}

\* a service call of user u that writes room_players: it returns at once
\* when this.roomId is null
SvcWrites(op, u, players) ==
    /\ clients[u].pc = "idle"
    /\ roomPlayers' = IF clients[u].room = 0 THEN roomPlayers ELSE players
    /\ roomLast' = RoomDid(op, u, clients[u].room,
                           IF clients[u].room = 0 THEN "NoRoom" ELSE "ok", TRUE)
    /\ UNCHANGED <<syncVars, gameVars, rooms, countdowns>>

SvcSetReady(u) ==
    \E isReady \in BOOLEAN :
        /\ SvcWrites("setReady", u, updateOwn(u, clients[u].room, [ready |-> isReady]))
        /\ UNCHANGED clients

\* updateScore, and its broadcastEvent('score', { score }), which writes nothing
SvcUpdateScore(u) ==
    \E sc \in ReportScores :
        /\ SvcWrites("updateScore", u, updateOwn(u, clients[u].room, [score |-> sc]))
        /\ UNCHANGED clients

\* broadcastHit, and its broadcastEvent('hit', { birdY }), which writes bird_y again
SvcBroadcastHit(u) ==
    \E y \in ReportYs :
        /\ SvcWrites("broadcastHit", u,
                     updateOwn(u, clients[u].room, [alive |-> FALSE, birdY |-> <<y>>]))
        /\ UNCHANGED clients

\* broadcastFlap: broadcastEvent('flap', { birdY })
SvcBroadcastFlap(u) ==
    \E y \in ReportYs :
        /\ SvcWrites("broadcastFlap", u, updateOwn(u, clients[u].room, [birdY |-> <<y>>]))
        /\ UNCHANGED clients

\* leaveRoom: delete the own row, then cleanup() forgets the room
SvcLeaveRoom(u) ==
    /\ SvcWrites("leaveRoom", u, deleteOwn(u, clients[u].room))
    /\ clients' = [clients EXCEPT ![u].room = 0]

\* a room that is being played by the users who joined it
RoomPlaying(users) ==
    /\ rooms = <<[code |-> "ABCDEF", state |-> "playing", host |-> "host",
                  verified |-> TRUE, random_seed |-> <<>>]>>
    /\ roomPlayers = {[NewPlayer(1, u) EXCEPT !.ready = (u # "host")] : u \in users}
    /\ clients = [u \in users |-> [Idle EXCEPT !.room = 1, !.isHost = (u = "host")]]
    /\ countdowns = <<>>
    /\ roomLast = [op |-> "none"]

InitReport == InLobby /\ NoSync /\ RoomPlaying(RoomUsers)

NextReport ==
    \/ \E u \in RoomUsers : SvcSetReady(u)
    \/ \E u \in RoomUsers : SvcUpdateScore(u)
    \/ \E u \in RoomUsers : SvcBroadcastHit(u)
    \/ \E u \in RoomUsers : SvcBroadcastFlap(u)
    \/ \E u \in RoomUsers : SvcLeaveRoom(u)

SpecReport == InitReport /\ [][NextReport]_vars

(* MultiplayerService when a request to the backend fails.  supabase-js    *)
(* resolves a failed request to { data: null, error }: an operation learns *)
(* of the failure only where it reads `error`.                             *)

failableOps ==
    {"createRoom", "joinRoom", "addPlayer", "setReady", "startGame", "leaveRoom",
     "finishGame"}

\* what an operation returns after its request has failed, and what
\* this.roomId is then.  createRoom, joinRoom, addPlayer, setReady and
\* startGame throw the error into their catch; leaveRoom and finishGame do
\* not look at the result of their request, and leaveRoom goes on to cleanup()
afterFailure(op, roomId) ==
    CASE op = "leaveRoom" -> [result |-> "ok", room |-> 0]
      [] op = "finishGame" -> [result |-> "ok", room |-> roomId]
      [] OTHER -> [result |-> "Error", room |-> roomId]

\* a request of an operation of user u's service fails: no table changes.
\* this.roomId stands for the two channels too, which are set up when it is
\* set and removed when cleanup() clears it
SvcFailure(u) ==
    /\ clients[u].pc = "idle"
    /\ \E op \in failableOps :
          /\ op \notin {"createRoom", "joinRoom"} => clients[u].room # 0
          /\ clients' = [clients EXCEPT ![u].room = afterFailure(op, @).room]
          /\ roomLast' = RoomDid(op, u, clients[u].room,
                                 afterFailure(op, clients[u].room).result, TRUE)
                         @@ [failed |-> TRUE]
    /\ UNCHANGED <<syncVars, gameVars, rooms, roomPlayers, countdowns>>

\* the request of the countdown callback fails: the callback awaits it and
\* drops the result, and startGame has returned { success: true } long ago
CountdownFailure ==
    /\ countdowns # <<>>
    /\ countdowns' = Tail(countdowns)
    /\ roomLast' = RoomDid("countdown", Head(countdowns), clients[Head(countdowns)].room,
                           "none", TRUE) @@ [failed |-> TRUE]
    /\ UNCHANGED <<syncVars, gameVars, rooms, roomPlayers, clients>>

InitFail == RoomCreated(RoomUsers)

NextFail ==
    \/ \E u \in RoomUsers : SvcJoinRoom(u)
    \/ \E u \in RoomUsers : SvcSetReady(u)
    \/ \E u \in RoomUsers : SvcStartGame(u)
    \/ Countdown
    \/ \E u \in RoomUsers : SvcFinishGame(u)
    \/ \E u \in RoomUsers : SvcLeaveRoom(u)
    \/ \E u \in RoomUsers : SvcFailure(u)
    \/ CountdownFailure

SpecFail == InitFail /\ [][NextFail]_vars

(* MultiplayerFlappyBirdGame: the wrapper of the game in a room *)

\* the user whose MultiplayerFlappyBirdGame is modelled
LocalUser == "p1"
\* the local score goes up to MaxSyncScore
MaxSyncScore == 3
\* the clock runs to MaxTime, in units of 100 ms
MaxTime == 7
\* change notifications whose handler is waiting for its loadPlayers()
MaxInbox == 1
\* `}, 300)` in units of 100 ms
SCORE_DEBOUNCE == 3

\* the component as it is mounted: useState and useRef initial values, the
\* first loadPlayers() on its way
MountedGame(u, id) ==
    [mounted |-> TRUE, user |-> u, room |-> id, players |-> {}, initialLoad |-> TRUE,
     gameStateRef |-> "playing", scoreTimers |-> <<>>, graceTimers |-> 0,
     inbox |-> 0, ended |-> 0, now |-> 0]

NoSyncLog == [op |-> "mount", calls |-> <<>>, sent |-> <<>>, deaths |-> 0, seen |-> {}]

\* a timer whose time has come runs before anything else does
timerDue == sync.scoreTimers # <<>> /\ Head(sync.scoreTimers).due <= sync.now

\* syncScore without clearTimeout
syncScore_keepsTimers(timers, sc, now) ==
    Append(timers, [score |-> sc, due |-> now + SCORE_DEBOUNCE])

\* syncScore: clear the pending timer, set a new one that holds this score
syncScore(timers, sc, now) == <<[score |-> sc, due |-> now + SCORE_DEBOUNCE]>>

\* syncScore(score) is called with the next score
SyncScore ==
    /\ sync.mounted
    /\ ~timerDue
    /\ Len(syncLog.calls) < MaxSyncScore
    /\ LET sc == Len(syncLog.calls) + 1
       IN  /\ sync' = [sync EXCEPT !.scoreTimers = syncScore(@, sc, sync.now)]
           /\ syncLog' = [syncLog EXCEPT !.op = "syncScore",
                             !.calls = Append(@, [score |-> sc, at |-> sync.now])]
    /\ UNCHANGED <<scores, lookup, gameVars, roomVars>>

\* the callback of the score timer: the update of the own row
ScoreTimeout ==
    /\ timerDue
    /\ roomPlayers' = updateOwn(sync.user, sync.room,
                                [score |-> Head(sync.scoreTimers).score])
    /\ sync' = [sync EXCEPT !.scoreTimers = Tail(@)]
    /\ syncLog' = [syncLog EXCEPT !.op = "scoreTimeout",
                      !.sent = Append(@, [score |-> Head(sync.scoreTimers).score,
                                          at |-> sync.now])]
    /\ UNCHANGED <<scores, lookup, gameVars, rooms, clients, countdowns, roomLast>>

\* 100 ms pass
Tick ==
    /\ sync.mounted
    /\ ~timerDue
    /\ sync.now < MaxTime
    /\ sync' = [sync EXCEPT !.now = @ + 1]
    /\ syncLog' = [syncLog EXCEPT !.op = "tick"]
    /\ UNCHANGED <<scores, lookup, gameVars, roomVars>>

\* the cleanup of the effect: remove the channel, clear the score timer
unmount(c) == [c EXCEPT !.mounted = FALSE, !.scoreTimers = <<>>]

\* App stops rendering the component (handleLogout)
Unmount ==
    /\ sync.mounted
    /\ sync' = unmount(sync)
    /\ syncLog' = [syncLog EXCEPT !.op = "unmount"]
    /\ UNCHANGED <<scores, lookup, gameVars, roomVars>>

\* the game of LocalUser in the room that is being played
InitSync ==
    /\ InLobby
    /\ RoomPlaying(RoomUsers)
    /\ sync = MountedGame(LocalUser, 1)
    /\ syncLog = NoSyncLog
    /\ lookup = [code |-> <<>>]
    /\ scores = <<>>

\* syncDeath(birdY) is called
SyncDeath ==
    /\ sync.mounted
    /\ syncLog.deaths < MaxDirectCalls
    /\ \E y \in ReportYs :
          roomPlayers' = updateOwn(sync.user, sync.room,
                                   [alive |-> FALSE, birdY |-> <<y>>])
    /\ syncLog' = [syncLog EXCEPT !.op = "syncDeath", !.deaths = @ + 1]
    /\ UNCHANGED <<scores, sync, lookup, gameVars, rooms, clients, countdowns, roomLast>>

\* the first loadPlayers() of the effect comes back
InitialLoad ==
    /\ sync.initialLoad
    /\ \E error \in BOOLEAN :
          sync' = [sync EXCEPT !.initialLoad = FALSE,
                               !.players = IF error THEN @ ELSE playersOf(sync.room)]
    /\ syncLog' = [syncLog EXCEPT !.op = "loadPlayers"]
    /\ UNCHANGED <<scores, lookup, gameVars, roomVars>>

\* a change of room_players is notified: the handler starts its loadPlayers()
Notify ==
    /\ sync.mounted
    /\ sync.inbox < MaxInbox
    /\ sync' = [sync EXCEPT !.inbox = @ + 1]
    /\ UNCHANGED <<scores, syncLog, lookup, gameVars, roomVars>>

\* loadPlayers() comes back to the handler, with the rows or, after an
\* error, with []; the handler counts the players alive
handleChange(c, error) ==
    LET updatedPlayers == IF error THEN {} ELSE playersOf(c.room)
        alivePlayers == {p \in updatedPlayers : p.alive}
        finish == alivePlayers = {} /\ c.gameStateRef = "playing"
    IN  [c EXCEPT !.inbox = @ - 1,
                  !.players = IF error THEN @ ELSE updatedPlayers,
                  !.gameStateRef = IF finish THEN "finished" ELSE @,
                  !.graceTimers = IF finish THEN @ + 1 ELSE @]

HandleChange ==
    /\ sync.inbox > 0
    /\ \E error \in BOOLEAN : sync' = handleChange(sync, error)
    /\ syncLog' = [syncLog EXCEPT !.op = "handleChange", !.seen = roomPlayers]
    /\ UNCHANGED <<scores, lookup, gameVars, roomVars>>

\* the callback of setTimeout(..., 1000): onGameEnd is App's
\* handleMultiplayerBack, which stops rendering the component
GraceTimeout ==
    /\ sync.graceTimers > 0
    /\ sync' = [unmount(sync) EXCEPT !.graceTimers = @ - 1, !.ended = @ + 1]
    /\ syncLog' = [syncLog EXCEPT !.op = "onGameEnd"]
    /\ UNCHANGED <<scores, lookup, gameVars, roomVars>>

NextSync ==
    \/ InitialLoad
    \/ Notify
    \/ HandleChange
    \/ SyncDeath
    \/ GraceTimeout
    \/ Unmount
    \/ \E u \in RoomUsers : SvcBroadcastHit(u)

SpecSync == InitSync /\ [][NextSync]_vars

(* The loadPlayers() requests in flight.  A request is sent by the effect  *)
(* or by the change handler, the database answers it with the rows of     *)
(* that moment or with an error, and the answers come back in any order.  *)

\* loadPlayers() requests of one client that are in flight
MaxLoads == 2

\* a request as it is sent
Sent(by) == [by |-> by, answer |-> "none", data |-> {}]

\* the component of MountedGame with its loads in flight, the first one
\* sent by the effect; notified is room_players as of the last change the
\* channel has delivered, failed is whether a load has come back with an error
MountedLoading(u, id) ==
    [k \in DOMAIN MountedGame(u, id) \cup {"loads", "notified", "failed"} |->
        CASE k = "loads" -> <<Sent("effect")>>
          [] k = "notified" -> playersOf(id)
          [] k = "failed" -> FALSE
          [] k = "initialLoad" -> FALSE
          [] OTHER -> MountedGame(u, id)[k]]

InitLoads ==
    /\ InLobby
    /\ RoomPlaying({"host", LocalUser})
    /\ sync = MountedLoading(LocalUser, 1)
    /\ syncLog = NoSyncLog
    /\ lookup = [code |-> <<>>]
    /\ scores = <<>>

\* the channel delivers the changes made since its last delivery: the
\* handler sends its loadPlayers()
NotifyChange ==
    /\ sync.mounted
    /\ sync.notified # playersOf(sync.room)
    /\ Len(sync.loads) < MaxLoads
    /\ sync' = [sync EXCEPT !.notified = playersOf(sync.room),
                            !.loads = Append(@, Sent("handler"))]
    /\ syncLog' = [syncLog EXCEPT !.op = "notify"]
    /\ UNCHANGED <<scores, lookup, gameVars, roomVars>>

\* the database answers a request: `.select('*').eq('room_id', roomId)`
SelectPlayers ==
    /\ \E i \in DOMAIN sync.loads, error \in BOOLEAN :
          /\ sync.loads[i].answer = "none"
          /\ sync' = [sync EXCEPT !.loads[i] =
                        IF error THEN [@ EXCEPT !.answer = "error"]
                        ELSE [@ EXCEPT !.answer = "data", !.data = playersOf(sync.room)]]
    /\ syncLog' = [syncLog EXCEPT !.op = "select"]
    /\ UNCHANGED <<scores, lookup, gameVars, roomVars>>

\* the sequence without its i-th element
without(seq, i) == [n \in 1..(Len(seq) - 1) |-> IF n < i THEN seq[n] ELSE seq[n + 1]]

\* the rest of loadPlayers() when the answer of request i is back:
\* setPlayers(data || []), or nothing after an error
loadPlayers(c, i) ==
    LET load == c.loads[i]
    IN  [c EXCEPT !.loads = without(@, i),
                  !.players = IF load.answer = "error" THEN @ ELSE load.data,
                  !.failed = @ \/ load.answer = "error"]

\* the handler after its loadPlayers(): it counts the players alive among
\* the rows returned, [] after an error
afterLoad(c, load) ==
    LET updatedPlayers == IF load.answer = "error" THEN {} ELSE load.data
        alivePlayers == {p \in updatedPlayers : p.alive}
        finish == load.by = "handler" /\ alivePlayers = {} /\ c.gameStateRef = "playing"
    IN  [c EXCEPT !.gameStateRef = IF finish THEN "finished" ELSE @,
                  !.graceTimers = IF finish THEN @ + 1 ELSE @]

\* an answer comes back, whichever was sent first
LoadReturns ==
    /\ \E i \in DOMAIN sync.loads :
          /\ sync.loads[i].answer # "none"
          /\ sync' = afterLoad(loadPlayers(sync, i), sync.loads[i])
    /\ syncLog' = [syncLog EXCEPT !.op = "loadPlayers"]
    /\ UNCHANGED <<scores, lookup, gameVars, roomVars>>

NextLoads ==
    \/ NotifyChange
    \/ SelectPlayers
    \/ LoadReturns
    \/ SyncDeath
    \/ GraceTimeout
    \/ SvcBroadcastHit("host")
    \/ SvcBroadcastFlap("host")

SpecLoads == InitLoads /\ [][NextLoads]_vars

NextDebounce ==
    \/ SyncScore
    \/ ScoreTimeout
    \/ Tick
    \/ Unmount

SpecDebounce == InitSync /\ [][NextDebounce]_vars

(* The game inside the wrapper.  `twin` is the same game given the same     *)
(* inputs at the same frames, outside a room: nothing is delivered to it.   *)

\* a render that puts the bird where a remote player's row says
render_movesBird(e, players) ==
    IF \E p \in players : p.birdY # <<>>
    THEN [e EXCEPT !.birdPosition.y = (CHOOSE p \in players : p.birdY # <<>>).birdY[1]]
    ELSE e

\* the render with a new `players`: FlappyBirdGame is given avatarUrl and
\* avatarId only, the rows go to the GhostBirds
render(e, players) == e

\* loadPlayers() comes back to the handler and the component renders again
Deliver ==
    /\ sync.inbox > 0
    /\ \E error \in BOOLEAN : sync' = handleChange(sync, error)
    /\ SetEngine(render(Engine, sync'.players))
    /\ UNCHANGED <<raf, scores, syncLog, lookup, roomVars, screenWidth, screenHeight, histVars, twin,
                   rngVars, probe, directCalls>>

\* the participants of a room of two, and the one that is not LocalUser
GhostUsers == {"host", LocalUser}
RemoteUsers == GhostUsers \ {LocalUser}

InitGhost ==
    /\ Mounted(DirectViewports)
    /\ twin = NewEngine
    /\ NoGenerators
    /\ probe = NoProbe
    /\ directCalls = 0
    /\ RoomPlaying(GhostUsers)
    /\ sync = MountedGame(LocalUser, 1)
    /\ syncLog = NoSyncLog
    /\ lookup = [code |-> <<>>]
    /\ scores = <<>>

NextGhost ==
    \/ PairFlap
    \/ PairGameLoop
    \/ PairTimeout
    \/ Notify
    \/ Deliver
    \/ \E u \in RemoteUsers : SvcBroadcastHit(u)
    \/ \E u \in RemoteUsers : SvcBroadcastFlap(u)

SpecGhost == InitGhost /\ [][NextGhost]_vars

(* The backend of scores.  saveScore is exported by the Supabase helpers   *)
(* and called by no component: no action of the game runs it.              *)

\* saveScore(score): one rpc save_score_and_update_stats with p_score and
\* p_pipes_passed = score; it saves a row, or after an error it saves none,
\* and the function logs and returns null
saveScore(calls, sc, error) ==
    Append(calls, [p_score |-> sc, p_pipes_passed |-> sc, saved |-> ~error])

(* Room codes: generateRoomCode, and the lookup of a typed code by joinRoom *)

\* `for (let i = 0; i < 6; i++)`
CODE_LENGTH == 6

\* Math.random() draws of generateRoomCode, in percent
CodeSamples == {0, 50, 99}

\* `const chars = 'ABCDEFGHJKLMNPQRSTUVWXYZ23456789'`
chars ==
    <<"A", "B", "C", "D", "E", "F", "G", "H", "J", "K", "L", "M", "N", "P", "Q", "R",
      "S", "T", "U", "V", "W", "X", "Y", "Z", "2", "3", "4", "5", "6", "7", "8", "9">>

\* String.prototype.toUpperCase on the characters a user can type: the
\* lower-case letters have an upper-case form, every other character is its own
upperCase ==
    [a |-> "A", b |-> "B", c |-> "C", d |-> "D", e |-> "E", f |-> "F", g |-> "G",
     h |-> "H", i |-> "I", j |-> "J", k |-> "K", l |-> "L", m |-> "M", n |-> "N",
     o |-> "O", p |-> "P", q |-> "Q", r |-> "R", s |-> "S", t |-> "T", u |-> "U",
     v |-> "V", w |-> "W", x |-> "X", y |-> "Y", z |-> "Z"]

\* a lookup that compares the input as it was typed
toUpperCase_asTyped(str) == str

\* `roomCode.toUpperCase()`
toUpperCase(str) ==
    [k \in DOMAIN str |-> IF str[k] \in DOMAIN upperCase THEN upperCase[str[k]] ELSE str[k]]

\* the code typed without the shift key
unshifted(str) ==
    [k \in DOMAIN str |->
        IF \E c \in DOMAIN upperCase : upperCase[c] = str[k]
        THEN CHOOSE c \in DOMAIN upperCase : upperCase[c] = str[k]
        ELSE str[k]]

\* the code typed with a wrong first character
mistyped(str) == [str EXCEPT ![1] = IF @ = "B" THEN "C" ELSE "B"]

\* `chars.charAt(Math.floor(Math.random() * chars.length))`
randomChar(r) == chars[((r * Len(chars)) \div 100) + 1]

NoLookup == [code |-> <<>>, stored |-> <<>>, typed |-> <<>>, result |-> "none"]

\* one round of the loop of generateRoomCode
GenerateChar ==
    /\ Len(lookup.code) < CODE_LENGTH
    /\ \E r \in CodeSamples : lookup' = [lookup EXCEPT !.code = Append(@, randomChar(r))]
    /\ UNCHANGED <<scores, sync, syncLog, gameVars, roomVars>>

\* generateRoomCode returns and the room is inserted with the code, waiting
InsertRoom ==
    /\ Len(lookup.code) = CODE_LENGTH
    /\ lookup.stored = <<>>
    /\ lookup' = [lookup EXCEPT !.stored = lookup.code]
    /\ UNCHANGED <<scores, sync, syncLog, gameVars, roomVars>>

\* another user types the code they were told, or nearly
TypeCode ==
    /\ lookup.stored # <<>>
    /\ lookup.typed = <<>>
    /\ \E str \in {lookup.stored, unshifted(lookup.stored), mistyped(lookup.stored)} :
          lookup' = [lookup EXCEPT !.typed = str]
    /\ UNCHANGED <<scores, sync, syncLog, gameVars, roomVars>>

\* joinRoom(roomCode) selects the waiting room `.eq('code', roomCode.toUpperCase())`
FindRoom ==
    /\ lookup.typed # <<>>
    /\ lookup.result = "none"
    /\ lookup' = [lookup EXCEPT !.result = IF toUpperCase(lookup.typed) = lookup.stored
                                           THEN "found" ELSE "notFound"]
    /\ UNCHANGED <<scores, sync, syncLog, gameVars, roomVars>>

InitCode ==
    /\ InLobby
    /\ sync = [mounted |-> FALSE]
    /\ syncLog = [op |-> "none"]
    /\ lookup = NoLookup
    /\ scores = <<>>
    /\ rooms = <<>>
    /\ roomPlayers = {}
    /\ clients = <<>>
    /\ countdowns = <<>>
    /\ roomLast = [op |-> "none"]

NextCode == GenerateChar \/ InsertRoom \/ TypeCode \/ FindRoom

SpecCode == InitCode /\ [][NextCode]_vars


\* two signed-in users in the lobby, no room yet
InitCreate ==
    /\ InLobby
    /\ NoSync
    /\ rooms = <<>>
    /\ roomPlayers = {}
    /\ clients = [u \in CreateUsers |-> Idle]
    /\ countdowns = <<>>
    /\ roomLast = [op |-> "none"]

NextCreate ==
    \/ \E u \in CreateUsers : CreateRoomBegin(u)
    \/ \E u \in CreateUsers : CreateRoomCheck(u)
    \/ \E u \in CreateUsers : CreateRoomInsert(u)
    \/ \E u \in CreateUsers : CreateRoomInsertPlayer(u)
    \/ \E u \in CreateUsers : SvcCreateRoom(u)

SpecCreate == InitCreate /\ [][NextCreate]_vars

----------------------------------------------------------------------------
(* Properties of the engine's phases and inputs *)

\* the sequence of gap heights of an obstacle list
gapTopHeights(ps) == [i \in 1..Len(ps) |-> ps[i].topHeight]

\* the state a first start() produces in this window
isFreshStart ==
    \E rnd \in StartDraws : Engine = startGame(NewEngine, rnd)

restarted ==
    last.op = "restart" \/ (last.op = "flap" /\ last.phase = "gameOver")

\* C1, as the specification states it: the phase changes only Ready -> Playing,
\* Playing -> Impact, Impact -> Over and Over -> Ready.
C1_OnlyListedTransitions ==
    [][gameState' # gameState =>
          <<gameState, gameState'>> \in { <<"start", "playing">>, <<"playing", "hit">>,
                                          <<"hit", "gameOver">>, <<"gameOver", "start">> }]_vars

\* C1, as the code behaves: the phase changes only Ready -> Playing on a tap,
\* Playing -> Impact on a frame that detects a collision, Impact -> Over when
\* the settle timer armed by the footprint reaching the ground fires, and
\* Over -> Playing on a restart (button or tap); Ready is never re-entered.
C1_PhaseTransitions ==
    [][gameState' # gameState =>
          \/ /\ gameState = "start" /\ gameState' = "playing"
             /\ last'.op = "flap"
          \/ /\ gameState = "playing" /\ gameState' = "hit"
             /\ last'.op = "tick"
             /\ \/ hitsBoundary(birdPosition'.y)
                \/ checkCollision(birdPosition', pipes')
          \/ /\ gameState = "hit" /\ gameState' = "gameOver"
             /\ last'.op = "timeout"
             /\ hasHitGroundRef
          \/ /\ gameState = "gameOver" /\ gameState' = "playing"
             /\ last'.op \in {"flap", "restart"}]_vars

\* a restart has run after a whole run: every transition has been taken
C1_Witness ==
    /\ last.op = "restart"
    /\ last.phase = "gameOver"
    /\ gameState = "playing"

\* C2: two instances given the same ticks and taps show the same sequence of
\* gap heights and, once both are over, the same score.
C2_SameSeedSameRun ==
    /\ gapTopHeights(pipes) = gapTopHeights(twin.pipes)
    /\ (gameState = "gameOver" /\ twin.gameState = "gameOver") => score = twin.score

\* C3: two generators constructed with the same integer seed, 0 included,
\* return the same value from next() at every call index.
C3_SameSeedSameSequence ==
    (Len(rngOut) = 4 /\ rngOut[1] = "next") => rngOut[3] = rngOut[4]

\* C4: when the run is over, every obstacle whose trailing edge has passed
\* the bird's x position has been credited exactly once, no obstacle has been
\* credited twice, and the score is the number of credits.
C4_CreditedOncePerPassedObstacle ==
    gameState = "gameOver" =>
        /\ \A i \in 1..Len(pipes) :
              pipes[i].x + HP(PIPE_WIDTH) < birdPosition.x =>
                  /\ pipes[i].id \in DOMAIN credits
                  /\ credits[pipes[i].id] = 1
        /\ \A id \in DOMAIN credits : credits[id] <= 1
        /\ score = Cardinality({id \in DOMAIN credits : credits[id] > 0})

\* C5: a flap in Playing sets the velocity to FLAP_STRENGTH whatever it was
\* before, so a second flap in a row leaves the velocity a single flap gives.
C5_FlapSetsImpulse ==
    (last.op = "flap" /\ last.phase = "playing") =>
        /\ birdVelocity = HP(FLAP_STRENGTH)
        /\ gameState = "playing"

\* the second of two taps in a row, in the middle of a run
C5_Witness ==
    /\ last.op = "flap"
    /\ last.prevOp = "flap"
    /\ last.phase = "playing"
    /\ last.vel = HP(FLAP_STRENGTH)
    /\ tickCount > 0

\* C6, as the specification states it: a frame in Playing, Impact or Over
\* adds gravity to the velocity.
C6_GravityInEveryPhaseButReady ==
    (last.op = "tick" /\ last.phase \in {"playing", "hit", "gameOver"}) =>
        birdVelocity = last.vel + GRAVITY

\* C6, as the code behaves: a frame in Playing or Impact adds gravity to the
\* velocity; a frame in Ready or Over leaves the velocity as it was.
C6_GravityWhilePlayingOrImpact ==
    last.op = "tick" =>
        birdVelocity = IF last.phase \in {"playing", "hit"}
                       THEN last.vel + GRAVITY ELSE last.vel

\* a frame has run in Impact
C6_Witness ==
    /\ last.op = "tick"
    /\ last.phase = "hit"
    /\ birdVelocity = last.vel + GRAVITY

\* C7, as the specification states it: a flap in Ready, Impact or Over
\* changes nothing.
C7_FlapOutsidePlayingIsNoOp ==
    [][(last'.op = "flap" /\ gameState # "playing") => UNCHANGED engineVars]_vars

\* C7, as the code behaves: a flap in Impact changes nothing; a flap in Ready
\* starts the run and a flap in Over restarts it.
C7_FlapInImpactIsNoOp ==
    [][last'.op = "flap" =>
          /\ gameState = "hit" => UNCHANGED engineVars
          /\ gameState \in {"start", "gameOver"} =>
                (gameState' = "playing" /\ birdVelocity' = HP(FLAP_STRENGTH))]_vars

\* a tap has arrived in Impact
C7_Witness ==
    /\ last.op = "flap"
    /\ last.phase = "hit"
    /\ gameState = "hit"

C9_RestartIsFreshStart ==
    /\ restarted => isFreshStart
    /\ (last.op = "flap" /\ last.phase = "start") => isFreshStart
    /\ restarted =>
          /\ score = 0
          /\ birdPosition = [x |-> HP(BIRD_START_X), y |-> HP(screenHeight) \div 2]
          /\ birdVelocity = HP(FLAP_STRENGTH)
          /\ \A i \in 1..Len(pipes) : pipes[i].id = i - 1 /\ ~pipes[i].passed
          /\ Len(pipes) = PipesNeeded
          /\ nextPipeId = Len(pipes)
          /\ ~hasHitGroundRef
          /\ gameState = "playing"

\* a run that had scored has been restarted
C9_Witness ==
    /\ last.op = "restart"
    /\ last.score > 0
    /\ score = 0

\* the collision box of a probe, and the obstacles it overlaps horizontally
probeY == probe.birdPos.y + HP(BIRD_COLLISION_OFFSET)

probeX == probe.birdPos.x + HP(BIRD_COLLISION_OFFSET)

overlapped ==
    {i \in 1..Len(probe.currentPipes) :
        /\ probeX + HP(BIRD_COLLISION_SIZE) > probe.currentPipes[i].x
        /\ probeX < probe.currentPipes[i].x + HP(PIPE_WIDTH)}

insideField ==
    /\ probeY > 0
    /\ probeY + HP(BIRD_COLLISION_SIZE) < HP(screenHeight)

insideGaps ==
    \A i \in overlapped :
        /\ probeY >= probe.currentPipes[i].topHeight
        /\ probeY + HP(BIRD_COLLISION_SIZE) <= probe.currentPipes[i].topHeight + PipeGap

\* C10: the collision test reports no collision when the footprint is
\* strictly inside the play-field vertically and, for every obstacle it
\* overlaps horizontally, within that obstacle's gap.
C10_NoCollisionInsideGap ==
    (probe.called /\ insideField /\ insideGaps) => ~probe.result

\* a footprint that touches the top edge of the gap of an obstacle it overlaps
C10_Witness ==
    /\ probe.called
    /\ insideField
    /\ insideGaps
    /\ \E i \in overlapped : probeY = probe.currentPipes[i].topHeight
    /\ ~probe.result

\* the vertical and pipe conditions of a collision, written out on the probe
hitsPipeAt(i) ==
    \/ /\ probeY + HP(BIRD_COLLISION_SIZE) > 0
       /\ probeY < probe.currentPipes[i].topHeight
    \/ /\ probeY < HP(screenHeight)
       /\ probeY + HP(BIRD_COLLISION_SIZE) > probe.currentPipes[i].topHeight + PipeGap

\* C11: the collision test returns true exactly when the footprint's top is
\* at or above y = 0, or its bottom is at or below the play-field height, or
\* some obstacle it overlaps horizontally has the footprint in its upper or
\* lower rectangle; it returns false in every other case.
C11_CollisionExactly ==
    probe.called =>
        (probe.result <=>
            \/ probeY <= 0
            \/ probeY + HP(BIRD_COLLISION_SIZE) >= HP(screenHeight)
            \/ \E i \in overlapped : hitsPipeAt(i))

\* a footprint inside the field that is in the lower rectangle of an obstacle
C11_Witness ==
    /\ probe.called
    /\ insideField
    /\ \E i \in overlapped :
          probeY + HP(BIRD_COLLISION_SIZE) > probe.currentPipes[i].topHeight + PipeGap
    /\ probe.result

\* C12: next() called N times, reset(), next() called N times again returns
\* the same N values in the same order.
C12_ResetReplays ==
    rngLog.pass = 2 =>
        \A k \in 1..Len(rngLog.again) : rngLog.again[k] = rngLog.first[k]

\* a whole first pass has been replayed after reset()
C12_Witness ==
    /\ rngLog.pass = 2
    /\ Len(rngLog.first) = MaxCalls
    /\ Len(rngLog.again) = MaxCalls
    /\ rngLog.first[1] # rngLog.first[2]

\* C13: after any number of next() calls the generator's state is an integer
\* in [0, 2^32), so the value next() returned lies in [0, 1).
C13_StateInRange ==
    rngCalls > 0 =>
        /\ ~rngA.current.neg
        /\ rngA.current.hi \in 0..(LIMB - 1)
        /\ rngA.current.lo \in 0..(LIMB - 1)

----------------------------------------------------------------------------
(* Properties of rooms *)

joinOps == {"handleJoinRoom", "joinRoom"}

startOps == {"handleStartGame", "startGame"}

forwardSteps ==
    {<<"waiting", "starting">>, <<"starting", "playing">>, <<"playing", "finished">>}

\* C14: under any interleaving of startGame, its countdown, finishGame and
\* the lobby's start handler, every change of a room's state is one step
\* forward along waiting -> starting -> playing -> finished.
C14_ForwardOneStep ==
    [][\A i \in 1..Len(rooms) :
          rooms'[i].state # rooms[i].state =>
              <<rooms[i].state, rooms'[i].state>> \in forwardSteps]_vars

\* C15: in any sequence of joinRoom calls on one room, a call made when the
\* room has 5 participants adds no player record and ends with RoomFull, and
\* no call takes the number of participants above 5.
C15_FullRoomRefuses ==
    [][/\ \A i \in 1..Len(rooms) : Cardinality(playersOf(i))' <= MAX_PLAYERS
       /\ (/\ roomLast'.op \in joinOps
           /\ roomLast'.room # 0
           /\ Cardinality(playersOf(roomLast'.room)) >= MAX_PLAYERS)
          => /\ roomPlayers' = roomPlayers
             /\ roomLast'.done => roomLast'.result = "RoomFull"]_vars

\* a user who is not in the room has been refused at 5 participants
C15_Witness ==
    /\ roomLast.op = "handleJoinRoom"
    /\ roomLast.result = "RoomFull"
    /\ Cardinality(playersOf(roomLast.room)) = MAX_PLAYERS
    /\ ~isPlayer(roomLast.room, roomLast.user)

\* C16: joinRoom by a user who already is a participant of the room
\* succeeds, also when the room has 5 participants, and leaves exactly one
\* record of that user in the room.
C16_RejoinSucceeds ==
    (roomLast.op \in joinOps /\ roomLast.done /\ roomLast.member) =>
        /\ roomLast.result = "ok"
        /\ Cardinality({p \in roomPlayers :
                           p.room = roomLast.room /\ p.user = roomLast.user}) = 1

\* C17: joinRoom creates no player record unless a room with the code is
\* waiting, so no player record is ever inserted into a room that is
\* starting, playing or finished.
C17_InsertOnlyIntoWaiting ==
    [][\A p \in roomPlayers' :
          ~isPlayer(p.room, p.user) => rooms[p.room].state = "waiting"]_vars

\* C18: startGame changes the room's state only when the caller is the host
\* and, at the moment of the change, at least 2 participants are ready;
\* otherwise it fails and the state stays as it is.
C18_StartNeedsHostAndTwoReady ==
    [][roomLast'.op \in startOps =>
          \/ /\ rooms[roomLast'.room].host = roomLast'.user
             /\ readyCount(roomLast'.room) >= 2
          \/ /\ rooms' = rooms
             /\ roomLast'.result # "ok"]_vars

\* C19: createRoom regenerates the code at most 10 times; every room it
\* persists carries a code that was verified not to belong to an existing
\* room, and when the retries are exhausted it fails instead of persisting
\* an unverified code: no call whose retries are exhausted gets as far as
\* a persisted room.
C19_ExhaustedRetriesFail ==
    \A u \in DOMAIN clients :
        /\ clients[u].attempts <= MAX_CODE_ATTEMPTS
        /\ clients[u].pc = "insertPlayer" =>
              /\ clients[u].attempts < MAX_CODE_ATTEMPTS
              /\ rooms[clients[u].target].verified

\* C20: createRoom is all-or-nothing: when it has returned, either the room
\* record and the host's player record both exist, or neither does.
C20_AllOrNothing ==
    (roomLast.op = "handleCreateRoom" /\ roomLast.done) =>
        \/ /\ roomLast.room \in 1..Len(rooms)
           /\ isPlayer(roomLast.room, roomLast.user)
        \/ /\ roomLast.room \notin 1..Len(rooms)
           /\ ~\E i \in 1..Len(rooms) : isPlayer(i, roomLast.user)

reportOps == {"setReady", "updateScore", "broadcastHit", "broadcastFlap", "leaveRoom"}

\* C21: setReady, the score, death and position reports and leaveRoom, run
\* by user u, change or delete only u's own player record: the records of
\* the other participants are the same before and after.
C21_OnlyOwnRecord ==
    [][roomLast'.op \in reportOps =>
          \A p \in roomPlayers \cup roomPlayers' :
              p.user # roomLast'.user => p \in roomPlayers \cap roomPlayers']_vars

\* a user has reported its death and another has left, next to a user whose
\* record still is as it was inserted
C21_Witness ==
    /\ roomLast.op \in {"broadcastHit", "leaveRoom"}
    /\ Cardinality(roomPlayers) = 2
    /\ \E p \in roomPlayers : ~p.alive /\ p.birdY # <<>>
    /\ \E p \in roomPlayers : p.alive /\ p.birdY = <<>> /\ p.score = 0

\* the calls of syncScore that end a burst: the next call comes a whole
\* debounce window later, or there is no next call
burstEnds ==
    {k \in 1..Len(syncLog.calls) :
        k < Len(syncLog.calls) =>
            syncLog.calls[k + 1].at - syncLog.calls[k].at >= SCORE_DEBOUNCE}

updateFor(k) ==
    [score |-> syncLog.calls[k].score, at |-> syncLog.calls[k].at + SCORE_DEBOUNCE]

C24_RoomFinishedOnce ==
    /\ sync.ended <= 1
    /\ (/\ sync.ended = 1
        /\ syncLog.seen # {}
        /\ \A p \in syncLog.seen : ~p.alive)
          => rooms[sync.room].state = "finished"

\* C25: the automatic end of the game is never triggered while a
\* participant of the room is alive, also when a reload of the players fails
\* or returns nothing.
C25_NoFinishWhileAlive ==
    [][sync'.gameStateRef # sync.gameStateRef =>
          \A p \in playersOf(sync.room) : ~p.alive]_vars

\* C27: handling the same change notification a second time, the table
\* being as it was the first time and nothing but the notification having
\* happened in between, leaves the projection and the finished flag as the
\* first time left them.
C27_DuplicateIsNoOp ==
    [][(/\ syncLog.op = "handleChange"
        /\ syncLog'.op = "handleChange"
        /\ syncLog.seen = roomPlayers)
       => /\ sync'.players = sync.players
          /\ sync'.gameStateRef = sync.gameStateRef
          /\ sync'.graceTimers = sync.graceTimers]_vars

\* C28: after teardown no callback that was scheduled before runs: of the
\* component's timers, the score timer and the grace timer of the automatic
\* end, none fires once the component is unmounted.
C28_NoTimerAfterTeardown ==
    [][~sync.mounted =>
          /\ sync'.graceTimers >= sync.graceTimers
          /\ Len(sync'.scoreTimers) >= Len(sync.scoreTimers)
          /\ sync'.ended = sync.ended]_vars

\* C23: every transition of the local game from playing to hit makes one
\* report of the death at once: the own row gets is_alive = false and the
\* bird's height.
C23_DeathIsBroadcast ==
    [][(gameState = "playing" /\ gameState' = "hit") =>
          \E p \in roomPlayers' : p.user = sync.user /\ ~p.alive /\ p.birdY # <<>>]_vars

alphabet == {chars[k] : k \in 1..Len(chars)}

isCode(str) == Len(str) = CODE_LENGTH /\ \A k \in 1..Len(str) : str[k] \in alphabet

\* C29: every room code has 6 characters, each from a fixed alphabet of 33
\* characters that has none of 0, O, I and 1; the lookup of a code that is
\* typed in finds the room whatever the case of the letters typed.
C29_CodeFromAlphabetOf33 ==
    /\ lookup.stored # <<>> =>
          /\ isCode(lookup.stored)
          /\ alphabet \cap {"0", "O", "I", "1"} = {}
          /\ Cardinality(alphabet) = 33
    /\ lookup.result # "none" =>
          (lookup.result = "found" <=> lookup.typed # mistyped(lookup.stored))

\* C29, with the alphabet as long as it is: 32 characters, the 36 upper-case
\* letters and digits without 0, O, I and 1.
C29_CodeFromAlphabetOf32 ==
    /\ lookup.stored # <<>> =>
          /\ isCode(lookup.stored)
          /\ alphabet \cap {"0", "O", "I", "1"} = {}
          /\ Cardinality(alphabet) = 32
    /\ lookup.result # "none" =>
          (lookup.result = "found" <=> lookup.typed # mistyped(lookup.stored))

\* a code with letters and a digit, typed in lower case, has found its room
C29_Witness ==
    /\ lookup.result = "found"
    /\ lookup.typed # lookup.stored
    /\ lookup.stored[1] = "S"
    /\ lookup.stored[2] = "9"
    /\ lookup.stored[3] = "A"

\* C30: each run that reaches gameOver issues one score-recording call that
\* carries the final score, and whether the call fails or not, bird,
\* obstacles and score are left as they are: the step that takes the game
\* to gameOver makes the call, and no other step makes one.
C30_OverRecordsScore ==
    [][IF gameState # "gameOver" /\ gameState' = "gameOver"
       THEN /\ \E error \in BOOLEAN : scores' = saveScore(scores, score, error)
            /\ UNCHANGED <<birdPosition, pipes, score>>
       ELSE UNCHANGED scores]_vars

\* C31: every room operation of the service, the countdown callback of
\* startGame included, reports a failure of the backend as a result
\* { success: false, error }, and after such a failure the service's roomId
\* and subscriptions are what they were.
C31_FailureIsReported ==
    [][("failed" \in DOMAIN roomLast') =>
          /\ roomLast'.result = "Error"
          /\ \A u \in DOMAIN clients : clients'[u].room = clients[u].room]_vars

\* C32: in a window of any height, every obstacle that startGame or a frame
\* has made leaves the minimum clearance of 60 px at both edges: its upper
\* part is at least 60 px high, and so is its lower part, which is the
\* height of the window less the upper part and the gap.
C32_GapLeavesClearance ==
    \A k \in 1..Len(pipes) :
        /\ pipes[k].topHeight >= HP(60)
        /\ HP(screenHeight) - (pipes[k].topHeight + PipeGap) >= HP(60)

\* a frame has added an obstacle
spawnedNow == last'.op = "tick" /\ nextPipeId' # nextPipeId

\* the obstacles are, after their move, at or left of the spawn threshold
atThreshold ==
    \A k \in 1..Len(pipes) :
        pipes[k].x - HP(PIPE_SPEED) <= HP(screenWidth) - PipeSpacing

\* C33: in every state the list holds at most 10 obstacles, and a frame
\* adds an obstacle only when the rightmost obstacle has moved to the left
\* of the window's width less the spacing.
C33_AtMostTenObstacles ==
    [][/\ Len(pipes') <= 10
       /\ spawnedNow => atThreshold]_vars

\* C33, with the cap where it is: the list is never longer than startGame
\* made it or than 10, and a frame adds an obstacle only when the rightmost
\* obstacle has moved to the window's width less the spacing or further left
\* and fewer than 10 obstacles are left on screen.
C33_SpawnsBelowCapAtThreshold ==
    [][/\ Len(pipes') <= Max(10, PipesNeeded)
       /\ spawnedNow => atThreshold /\ Len(pipes') <= 10]_vars

\* a frame has just added the obstacle that follows those of startGame
C33_Witness ==
    /\ last.op = "tick"
    /\ pipes # <<>>
    /\ pipes[Len(pipes)].id = PipesNeeded
    /\ pipes[Len(pipes)].x > HP(screenWidth) - HP(PIPE_SPEED)
    /\ pipes[Len(pipes)].x <= HP(screenWidth)

\* C34: every room that is created has an integer random seed from its
\* creation on, and no later operation changes the seed of a room.
C34_SeedAssignedAndFixed ==
    [][\A id \in 1..Len(rooms') :
          /\ rooms'[id].random_seed # <<>>
          /\ rooms'[id].random_seed[1] \in Int
          /\ id <= Len(rooms) => rooms'[id].random_seed = rooms[id].random_seed]_vars

\* C35: a frame that runs in 'hit' leaves the obstacles (their positions,
\* passed flags and membership) and the score as they are: the bird falls,
\* its velocity grows by gravity and its height by the new velocity, and
\* nothing else of the simulation changes.
C35_HitFrameFreezesObstacles ==
    [][(gameState = "hit" /\ last'.op = "tick") =>
          /\ UNCHANGED <<pipes, score, nextPipeId>>
          /\ gameState' = "hit"
          /\ birdVelocity' = birdVelocity + GRAVITY
          /\ birdPosition' = [birdPosition EXCEPT !.y = @ + birdVelocity']]_vars

\* a frame has run in 'hit' with obstacles on screen, one of them passed
C35_Witness ==
    /\ last.op = "tick"
    /\ last.phase = "hit"
    /\ gameState = "hit"
    /\ score > 0
    /\ \E k \in 1..Len(pipes) : pipes[k].passed

\* the lower edge of the bird's collision box is at the ground line or below
onGround(y) == y + HP(BIRD_COLLISION_OFFSET) + HP(BIRD_COLLISION_SIZE) >= HP(screenHeight - 50)

\* C36: a game in 'hit' reaches 'gameOver', as long as frames keep coming
\* and the settle timer fires; and the deferred transition is scheduled
\* once in a run, by the first frame in 'hit' that finds the lower edge of
\* the bird at the ground line or below, and by no other step.
C36_HitLeadsToGameOver ==
    /\ (gameState = "hit") ~> (gameState = "gameOver")
    /\ [][IF /\ gameState = "hit"
              /\ last'.op = "tick"
              /\ onGround(birdPosition'.y)
              /\ gameOverTimers = 0
           THEN gameOverTimers' = 1
           ELSE gameOverTimers' <= gameOverTimers]_vars

\* the timer of a run that ended on the ground has fired
C36_Witness ==
    /\ gameState = "gameOver"
    /\ last.op = "timeout"
    /\ last.phase = "hit"
    /\ gameOverTimers = 0
    /\ onGround(birdPosition.y)

\* the ids of the obstacles of this run: those in the list, and those that
\* have been credited, which may have left the screen
idsSoFar == {pipes[k].id : k \in 1..Len(pipes)} \cup DOMAIN credits

\* C37: within a run no two obstacles have the same id, and the id of an
\* obstacle that a frame adds is greater than the id of every obstacle made
\* before it in the run.
C37_IdsUniqueAndIncreasing ==
    [][/\ \A k \in 1..Len(pipes') : \A m \in 1..Len(pipes') :
              k # m => pipes'[k].id # pipes'[m].id
       /\ spawnedNow => \A id \in idsSoFar : pipes'[Len(pipes')].id > id]_vars

\* frames have added several obstacles to those of startGame, the first of
\* which has left the screen
C37_Witness ==
    /\ last.op = "tick"
    /\ pipes # <<>>
    /\ pipes[Len(pipes)].id > PipesNeeded + 1
    /\ pipes[1].id > 0
    /\ ~pipes[Len(pipes)].passed

\* the step runs a requested callback
runsCallback == raf.pending # <<>> /\ raf'.ran # raf.ran

\* C38: at every moment at most one frame callback of the game loop is
\* requested, none is requested in 'start' or 'gameOver', and a frame is run
\* by exactly one callback: a step logs a tick when, and only when, it takes
\* one callback from the requested ones.
C38_OneFramePending ==
    /\ [](Len(raf.pending) <= 1)
    /\ [](gameState \in {"start", "gameOver"} => raf.pending = <<>>)
    /\ [][(last'.op = "tick") <=> (runsCallback /\ Len(raf.pending) = 1)]_vars

\* a frame that adds a pipe in 'playing': the render after it has a new
\* gameLoop, the effect runs again, and one callback is requested
C38_Witness ==
    /\ last.op = "tick"
    /\ gameState = "playing"
    /\ nextPipeId > PipesNeeded
    /\ Len(raf.pending) = 1
    /\ raf.pending[1].closure = closureOf(Engine)
    /\ raf.ref = raf.pending[1].id

\* no change is undelivered, no loadPlayers() is in flight, none has failed
settled ==
    /\ sync.mounted
    /\ sync.notified = playersOf(sync.room)
    /\ sync.loads = <<>>
    /\ ~sync.failed

\* C39: once the writes of room_players have stopped and every change
\* notification and every loadPlayers() in flight has completed, in whatever
\* order the answers came back, the players a client shows are the rows of
\* the room.
C39_ReloadsConverge == settled => sync.players = playersOf(sync.room)

\* C40: under every interleaving of handleJoinRoom calls of different users,
\* each reading the players of the room and then inserting its own record,
\* the room never holds more than 5 room_players records.
C40_RacingJoinsKeepFive == \A id \in 1..Len(rooms) : Cardinality(playersOf(id)) <= MAX_PLAYERS
====
